---- MODULE Spec2Model ----
(***************************************************************************)
(* Model of examples/hello_vga.rs: software-generated 800x600 mono VGA on  *)
(* a TM4C123.  Timer0A's interrupt sequences scanlines and renders one     *)
(* line of text into render_line; Timer0B's interrupt clocks that line out *)
(* through the SSI2 transmit FIFO.                                         *)
(***************************************************************************)
EXTENDS Integers, Sequences, FiniteSets, TLC

(* ------------------------------------------------------------------ *)
(* Bounds of the model (not program constants)                         *)
(* ------------------------------------------------------------------ *)

\* Number of start_of_line calls after which Timer0A stops raising events.
MaxCalls == 634

\* Depth of the SSI transmit FIFO (a property of the peripheral, not of the
\* source; the claims are independent of its value).
FifoDepth == 2

(* ------------------------------------------------------------------ *)
(* Timing and geometry constants                                        *)
(* ------------------------------------------------------------------ *)

H_VISIBLE_AREA == 800 * 2
H_FRONT_PORCH == 40 * 2
H_SYNC_PULSE == 128 * 2
H_BACK_PORCH == 88 * 2
H_WHOLE_LINE == H_VISIBLE_AREA + H_FRONT_PORCH + H_SYNC_PULSE + H_BACK_PORCH
H_SYNC_END_counting_up == H_SYNC_PULSE
H_SYNC_END == H_WHOLE_LINE - H_SYNC_PULSE
H_LINE_START == H_WHOLE_LINE - (H_SYNC_PULSE + H_BACK_PORCH)
V_VISIBLE_AREA == 600
V_FRONT_PORCH == 1
V_SYNC_PULSE == 4
V_BACK_PORCH == 23
V_WHOLE_FRAME == V_SYNC_PULSE + V_BACK_PORCH + V_VISIBLE_AREA + V_FRONT_PORCH

FONT_WIDTH == 8
FONT_HEIGHT == 16
VISIBLE_LINES == 300
VISIBLE_COLS == 400
HORIZONTAL_WORDS == (VISIBLE_COLS + 15) \div 16
TEXT_MAX_COLS == VISIBLE_COLS \div FONT_WIDTH
MAX_X == TEXT_MAX_COLS - 1
TEXT_MAX_ROWS == VISIBLE_LINES \div FONT_HEIGHT
MAX_Y == TEXT_MAX_ROWS - 1
VISIBLE_LINES_WITH_TEXT_every_line == VISIBLE_LINES
VISIBLE_LINES_WITH_TEXT == TEXT_MAX_ROWS * FONT_HEIGHT

(* ------------------------------------------------------------------ *)
(* Option<usize>, u16 arithmetic                                        *)
(* ------------------------------------------------------------------ *)

None == << >>
Some(x) == << x >>
is_some(o) == o # None
unwrap(o) == o[1]

\* x << n on a u16
Shl16(x, n) == (x * (2 ^ n)) % (2 ^ 16)

\* x >> n on a usize
Shr(x, n) == x \div (2 ^ n)

\* a | b, bit by bit from the least significant bit
RECURSIVE BitOr(_, _)
BitOr(a, b) ==
  IF a = 0 THEN b
  ELSE IF b = 0 THEN a
  ELSE (IF (a % 2 = 1) \/ (b % 2 = 1) THEN 1 ELSE 0)
       + 2 * BitOr(a \div 2, b \div 2)

(* ------------------------------------------------------------------ *)
(* Glyph enum and font table                                            *)
(* ------------------------------------------------------------------ *)

\* The variants of enum Glyph in declaration order; a variant's
\* discriminant (`glyph as usize`) is its position, counted from 0.
GlyphNames ==
  << "Unknown", "Space", "ExclamationMark", "DoubleQuote",
     "Hash", "Dollar", "Percent", "Ampersand",
     "SingleQuote", "OpenRoundBracket", "CloseRoundBracket", "Asterisk",
     "Plus", "Comma", "Minus", "Period",
     "Slash", "Digit0", "Digit1", "Digit2",
     "Digit3", "Digit4", "Digit5", "Digit6",
     "Digit7", "Digit8", "Digit9", "Colon",
     "SemiColon", "LessThan", "Equals", "GreaterThan",
     "QuestionMark", "At", "UppercaseA", "UppercaseB",
     "UppercaseC", "UppercaseD", "UppercaseE", "UppercaseF",
     "UppercaseG", "UppercaseH", "UppercaseI", "UppercaseJ",
     "UppercaseK", "UppercaseL", "UppercaseM", "UppercaseN",
     "UppercaseO", "UppercaseP", "UppercaseQ", "UppercaseR",
     "UppercaseS", "UppercaseT", "UppercaseU", "UppercaseV",
     "UppercaseW", "UppercaseX", "UppercaseY", "UppercaseZ",
     "OpenSquareBracket", "Backslash", "CloseSquareBracket", "Caret",
     "Underscore", "Backtick", "LowercaseA", "LowercaseB",
     "LowercaseC", "LowercaseD", "LowercaseE", "LowercaseF",
     "LowercaseG", "LowercaseH", "LowercaseI", "LowercaseJ",
     "LowercaseK", "LowercaseL", "LowercaseM", "LowercaseN",
     "LowercaseO", "LowercaseP", "LowercaseQ", "LowercaseR",
     "LowercaseS", "LowercaseT", "LowercaseU", "LowercaseV",
     "LowercaseW", "LowercaseX", "LowercaseY", "LowercaseZ",
     "OpenBrace", "VerticalBar", "CloseBrace", "Tilde" >>

\* Glyph::<name> as usize
Glyph(name) == (CHOOSE i \in 1..Len(GlyphNames) : GlyphNames[i] = name) - 1

\* const FONT_DATA: [u8; 1536], 16 bytes per glyph in discriminant order.
FONT_DATA ==
  << 255, 255, 255, 255, 255, 255, 255, 255, 255, 255, 255, 255, 255, 255, 255, 255,
     0, 0, 0, 0, 0, 0, 0, 0, 0, 0, 0, 0, 0, 0, 0, 0,
     16, 16, 16, 16, 16, 16, 16, 16, 16, 16, 0, 0, 16, 16, 0, 0,
     36, 36, 36, 36, 36, 36, 0, 0, 0, 0, 0, 0, 0, 0, 0, 0,
     36, 36, 36, 36, 126, 126, 36, 36, 126, 126, 36, 36, 36, 36, 0, 0,
     16, 16, 60, 60, 80, 80, 56, 56, 20, 20, 120, 120, 16, 16, 0, 0,
     0, 0, 98, 98, 100, 100, 8, 8, 16, 16, 38, 38, 70, 70, 0, 0,
     48, 48, 72, 72, 72, 72, 48, 48, 74, 74, 68, 68, 58, 58, 0, 0,
     16, 16, 16, 16, 16, 16, 0, 0, 0, 0, 0, 0, 0, 0, 0, 0,
     16, 16, 32, 32, 64, 64, 64, 64, 64, 64, 32, 32, 16, 16, 0, 0,
     16, 16, 8, 8, 4, 4, 4, 4, 4, 4, 8, 8, 16, 16, 0, 0,
     16, 16, 84, 84, 56, 56, 16, 16, 56, 56, 84, 84, 16, 16, 0, 0,
     0, 0, 16, 16, 16, 16, 124, 124, 16, 16, 16, 16, 0, 0, 0, 0,
     0, 0, 0, 0, 0, 0, 0, 0, 8, 8, 8, 8, 16, 16, 0, 0,
     0, 0, 0, 0, 0, 0, 126, 126, 0, 0, 0, 0, 0, 0, 0, 0,
     0, 0, 0, 0, 0, 0, 0, 0, 0, 0, 0, 0, 16, 16, 0, 0,
     0, 0, 2, 2, 4, 4, 8, 8, 16, 16, 32, 32, 64, 64, 0, 0,
     60, 60, 66, 66, 70, 70, 90, 90, 98, 98, 66, 66, 60, 60, 0, 0,
     8, 8, 24, 24, 8, 8, 8, 8, 8, 8, 8, 8, 28, 28, 0, 0,
     60, 60, 66, 66, 2, 2, 28, 28, 32, 32, 64, 64, 126, 126, 0, 0,
     126, 126, 2, 2, 4, 4, 28, 28, 2, 2, 66, 66, 60, 60, 0, 0,
     4, 4, 12, 12, 20, 20, 36, 36, 126, 126, 4, 4, 4, 4, 0, 0,
     126, 126, 64, 64, 124, 124, 2, 2, 2, 2, 66, 66, 60, 60, 0, 0,
     30, 30, 32, 32, 64, 64, 124, 124, 66, 66, 66, 66, 60, 60, 0, 0,
     126, 126, 2, 2, 4, 4, 8, 8, 16, 16, 16, 16, 16, 16, 0, 0,
     60, 60, 66, 66, 66, 66, 60, 60, 66, 66, 66, 66, 60, 60, 0, 0,
     60, 60, 66, 66, 66, 66, 62, 62, 2, 2, 4, 4, 120, 120, 0, 0,
     0, 0, 0, 0, 16, 16, 0, 0, 16, 16, 0, 0, 0, 0, 0, 0,
     0, 0, 0, 0, 8, 8, 0, 0, 8, 8, 8, 8, 16, 0, 0, 0,
     4, 4, 8, 8, 16, 16, 32, 32, 16, 16, 8, 8, 4, 4, 0, 0,
     0, 0, 0, 0, 126, 126, 0, 0, 126, 126, 0, 0, 0, 0, 0, 0,
     32, 32, 16, 16, 8, 8, 4, 4, 8, 8, 16, 16, 32, 32, 0, 0,
     32, 32, 64, 64, 0, 0, 0, 0, 0, 0, 0, 0, 0, 0, 0, 0,
     60, 60, 66, 66, 74, 74, 86, 86, 76, 76, 64, 64, 62, 62, 0, 0,
     24, 24, 36, 36, 66, 66, 66, 66, 126, 126, 66, 66, 66, 66, 0, 0,
     124, 124, 66, 66, 66, 66, 124, 124, 66, 66, 66, 66, 124, 124, 0, 0,
     60, 60, 66, 66, 64, 64, 64, 64, 64, 64, 66, 66, 60, 60, 0, 0,
     124, 124, 66, 66, 66, 66, 66, 66, 66, 66, 66, 66, 124, 124, 0, 0,
     126, 126, 64, 64, 64, 64, 124, 124, 64, 64, 64, 64, 126, 126, 0, 0,
     126, 126, 64, 64, 64, 64, 124, 124, 64, 64, 64, 64, 64, 64, 0, 0,
     62, 62, 64, 64, 64, 64, 64, 78, 78, 66, 66, 66, 62, 62, 0, 0,
     66, 66, 66, 66, 66, 66, 126, 126, 66, 66, 66, 66, 66, 66, 0, 0,
     56, 56, 16, 16, 16, 16, 16, 16, 16, 16, 16, 16, 56, 56, 0, 0,
     2, 2, 2, 2, 2, 2, 2, 2, 2, 2, 66, 66, 60, 60, 0, 0,
     66, 66, 68, 68, 72, 72, 112, 112, 72, 72, 68, 68, 66, 66, 0, 0,
     64, 64, 64, 64, 64, 64, 64, 64, 64, 64, 64, 64, 126, 126, 0, 0,
     66, 66, 102, 102, 90, 90, 90, 90, 66, 66, 66, 66, 66, 66, 0, 0,
     66, 66, 98, 98, 82, 82, 90, 90, 74, 74, 70, 70, 66, 66, 0, 0,
     60, 60, 66, 66, 66, 66, 66, 66, 66, 66, 66, 66, 60, 60, 0, 0,
     124, 124, 66, 66, 66, 66, 124, 124, 64, 64, 64, 64, 64, 64, 0, 0,
     60, 60, 66, 66, 66, 66, 66, 66, 74, 74, 68, 68, 58, 58, 0, 0,
     124, 124, 66, 66, 66, 66, 124, 124, 72, 72, 68, 68, 66, 66, 0, 0,
     60, 60, 66, 66, 64, 64, 60, 60, 2, 2, 66, 66, 60, 60, 0, 0,
     124, 124, 16, 16, 16, 16, 16, 16, 16, 16, 16, 16, 16, 16, 0, 0,
     66, 66, 66, 66, 66, 66, 66, 66, 66, 66, 66, 66, 60, 60, 0, 0,
     66, 66, 66, 66, 66, 66, 66, 66, 66, 66, 36, 36, 24, 24, 0, 0,
     66, 66, 66, 66, 66, 66, 90, 90, 90, 90, 102, 102, 66, 66, 0, 0,
     66, 66, 66, 66, 36, 36, 24, 24, 36, 36, 66, 66, 66, 66, 0, 0,
     68, 68, 68, 68, 40, 40, 16, 16, 16, 16, 16, 16, 16, 16, 0, 0,
     126, 126, 2, 2, 4, 4, 24, 24, 32, 32, 64, 64, 126, 126, 0, 0,
     126, 126, 96, 96, 96, 96, 96, 96, 96, 96, 96, 96, 126, 126, 0, 0,
     0, 0, 64, 64, 32, 32, 16, 16, 8, 8, 4, 4, 2, 2, 0, 0,
     126, 126, 6, 6, 6, 6, 6, 6, 6, 6, 6, 6, 126, 126, 0, 0,
     0, 0, 0, 0, 16, 16, 40, 40, 68, 68, 0, 0, 0, 0, 0, 0,
     0, 0, 0, 0, 0, 0, 0, 0, 0, 0, 0, 0, 126, 126, 0, 0,
     32, 32, 16, 16, 8, 8, 0, 0, 0, 0, 0, 0, 0, 0, 0, 0,
     0, 0, 0, 0, 60, 60, 2, 2, 62, 62, 66, 66, 62, 62, 0, 0,
     64, 64, 64, 64, 124, 124, 66, 66, 66, 66, 66, 66, 124, 124, 0, 0,
     0, 0, 0, 0, 62, 62, 64, 64, 64, 64, 64, 64, 62, 62, 0, 0,
     2, 2, 2, 2, 62, 62, 66, 66, 66, 66, 66, 66, 62, 62, 0, 0,
     0, 0, 0, 0, 60, 60, 66, 66, 126, 126, 64, 64, 62, 62, 0, 0,
     28, 28, 34, 34, 32, 32, 124, 124, 32, 32, 32, 32, 32, 32, 0, 0,
     0, 0, 0, 0, 60, 60, 66, 66, 66, 66, 62, 62, 2, 2, 60, 60,
     64, 64, 64, 64, 124, 124, 66, 66, 66, 66, 66, 66, 66, 66, 0, 0,
     16, 16, 0, 0, 48, 48, 16, 16, 16, 16, 16, 16, 56, 56, 0, 0,
     4, 4, 0, 0, 60, 60, 4, 4, 4, 4, 4, 4, 68, 68, 56, 56,
     64, 64, 64, 64, 66, 66, 68, 68, 120, 120, 68, 68, 66, 66, 0, 0,
     48, 48, 16, 16, 16, 16, 16, 16, 16, 16, 16, 16, 56, 56, 0, 0,
     0, 0, 0, 0, 102, 102, 90, 90, 90, 90, 90, 90, 66, 66, 0, 0,
     0, 0, 0, 0, 124, 124, 66, 66, 66, 66, 66, 66, 66, 66, 0, 0,
     0, 0, 0, 0, 60, 60, 66, 66, 66, 66, 66, 66, 60, 60, 0, 0,
     0, 0, 0, 0, 124, 124, 66, 66, 66, 66, 124, 124, 64, 64, 64, 64,
     0, 0, 0, 0, 62, 62, 66, 66, 66, 66, 62, 62, 2, 2, 2, 2,
     0, 0, 0, 0, 94, 94, 96, 96, 64, 64, 64, 64, 64, 64, 0, 0,
     0, 0, 0, 0, 62, 62, 64, 64, 60, 60, 2, 2, 124, 124, 0, 0,
     16, 16, 16, 16, 124, 124, 16, 16, 16, 16, 18, 18, 12, 12, 0, 0,
     0, 0, 0, 0, 66, 66, 66, 66, 66, 66, 70, 70, 58, 58, 0, 0,
     0, 0, 0, 0, 66, 66, 66, 66, 66, 66, 36, 36, 24, 24, 0, 0,
     0, 0, 0, 0, 66, 66, 66, 66, 90, 90, 90, 90, 102, 102, 0, 0,
     0, 0, 0, 0, 66, 66, 36, 36, 24, 24, 36, 36, 66, 66, 0, 0,
     0, 0, 0, 0, 66, 66, 66, 66, 66, 66, 62, 62, 2, 2, 60, 60,
     0, 0, 0, 0, 126, 126, 4, 4, 24, 24, 32, 32, 126, 126, 0, 0,
     14, 14, 24, 24, 24, 24, 112, 112, 24, 24, 24, 24, 14, 14, 0, 0,
     16, 16, 16, 16, 16, 16, 16, 16, 16, 16, 16, 16, 16, 16, 0, 0,
     112, 112, 24, 24, 24, 24, 14, 14, 24, 24, 24, 24, 112, 112, 0, 0,
     0, 0, 0, 0, 36, 36, 84, 84, 72, 72, 0, 0, 0, 0, 0, 0 >>

\* font_lookup that strides the table by the glyph width
font_lookup_width_stride(glyph, row) ==
  LET index == (glyph * FONT_WIDTH) + row
  IN FONT_DATA[index + 1]

\* font_lookup into a table that starts at the block of Space
font_lookup_no_unknown_block(glyph, row) ==
  LET index == ((IF glyph = 0 THEN 0 ELSE glyph - 1) * FONT_HEIGHT) + row
  IN FONT_DATA[index + 1]

\* FONT_DATA[index], 0-based as in the source
font_lookup(glyph, row) ==
  LET index == (glyph * FONT_HEIGHT) + row
  IN FONT_DATA[index + 1]

(* ------------------------------------------------------------------ *)
(* struct FrameBuffer and its methods                                   *)
(* ------------------------------------------------------------------ *)

\* The initializer of static FB_INFO.
FrameBufferNew ==
  [ line_no |-> 0,
    fb_line |-> None,
    text |-> [y \in 0..(TEXT_MAX_ROWS - 1) |->
                [x \in 0..(TEXT_MAX_COLS - 1) |-> Glyph("Space")]],
    render_line |-> [w \in 0..(HORIZONTAL_WORDS - 1) |-> 0] ]

\* Characters are Unicode code points: 'A' = 65, 'B' = 66, 'C' = 67,
\* 'D' = 68, 'R' = 82, ' ' = 32.
\* map_char that falls back to the blank glyph
map_char_default_space(ch) ==
  CASE ch = 65 -> Glyph("UppercaseA")
    [] ch = 66 -> Glyph("UppercaseB")
    [] ch = 67 -> Glyph("UppercaseC")
    [] ch = 68 -> Glyph("UppercaseD")
    [] ch = 82 -> Glyph("UppercaseR")
    [] ch = 32 -> Glyph("Space")
    [] OTHER -> Glyph("Space")

map_char(ch) ==
  CASE ch = 65 -> Glyph("UppercaseA")
    [] ch = 66 -> Glyph("UppercaseB")
    [] ch = 67 -> Glyph("UppercaseC")
    [] ch = 68 -> Glyph("UppercaseD")
    [] ch = 82 -> Glyph("UppercaseR")
    [] ch = 32 -> Glyph("Space")
    [] OTHER -> Glyph("Unknown")

\* write_char that clamps the cell to the grid instead of testing it
write_char_clamped(fb, ch, x, y) ==
  LET cx == IF x < TEXT_MAX_COLS THEN x ELSE MAX_X
      cy == IF y < TEXT_MAX_ROWS THEN y ELSE MAX_Y
  IN [fb EXCEPT !.text[cy][cx] = map_char(ch)]

write_char(fb, ch, x, y) ==
  IF (x < TEXT_MAX_COLS) /\ (y < TEXT_MAX_ROWS)
  THEN [fb EXCEPT !.text[y][x] = map_char(ch)]
  ELSE fb

\* write_string that wraps one column too late
RECURSIVE write_string_wrap_late(_, _, _, _)
write_string_wrap_late(fb, message, x, y) ==
  IF message = << >> THEN fb
  ELSE LET fb1 == write_char(fb, Head(message), x, y)
           x1 == x + 1
           y1 == IF x1 > TEXT_MAX_COLS THEN y + 1 ELSE y
           x2 == IF x1 > TEXT_MAX_COLS THEN 0 ELSE x1
           y2 == IF y1 >= TEXT_MAX_ROWS THEN 0 ELSE y1
       IN write_string_wrap_late(fb1, Tail(message), x2, y2)

\* write_string without the test of y against TEXT_MAX_ROWS
RECURSIVE write_string_no_row_wrap(_, _, _, _)
write_string_no_row_wrap(fb, message, x, y) ==
  IF message = << >> THEN fb
  ELSE LET fb1 == write_char(fb, Head(message), x, y)
           x1 == x + 1
           y1 == IF x1 >= TEXT_MAX_COLS THEN y + 1 ELSE y
           x2 == IF x1 >= TEXT_MAX_COLS THEN 0 ELSE x1
       IN write_string_no_row_wrap(fb1, Tail(message), x2, y1)

\* write_string that scrolls the grid up by one row when y reaches
\* TEXT_MAX_ROWS and goes on writing on the last row
RECURSIVE write_string_scrolling(_, _, _, _)
write_string_scrolling(fb, message, x, y) ==
  IF message = << >> THEN fb
  ELSE LET fb1 == write_char(fb, Head(message), x, y)
           x1 == x + 1
           y1 == IF x1 >= TEXT_MAX_COLS THEN y + 1 ELSE y
           x2 == IF x1 >= TEXT_MAX_COLS THEN 0 ELSE x1
           y2 == IF y1 >= TEXT_MAX_ROWS THEN MAX_Y ELSE y1
           fb2 == IF y1 >= TEXT_MAX_ROWS
                  THEN [fb1 EXCEPT !.text =
                          [r \in 0..MAX_Y |->
                             IF r < MAX_Y THEN fb1.text[r + 1]
                             ELSE [c \in 0..MAX_X |-> Glyph("Space")]]]
                  ELSE fb1
       IN write_string_scrolling(fb2, Tail(message), x2, y2)

\* message is the sequence of the string's characters
RECURSIVE write_string(_, _, _, _)
write_string(fb, message, x, y) ==
  IF message = << >> THEN fb
  ELSE LET fb1 == write_char(fb, Head(message), x, y)
           x1 == x + 1
           y1 == IF x1 >= TEXT_MAX_COLS THEN y + 1 ELSE y
           x2 == IF x1 >= TEXT_MAX_COLS THEN 0 ELSE x1
           y2 == IF y1 >= TEXT_MAX_ROWS THEN 0 ELSE y1
       IN write_string(fb1, Tail(message), x2, y2)

\* render with the two bytes of a word the wrong way round
render_bytes_swapped(fb) ==
  IF is_some(fb.fb_line)
  THEN LET line == unwrap(fb.fb_line)
       IN IF line < VISIBLE_LINES_WITH_TEXT
          THEN LET text_row == line \div FONT_HEIGHT
                   font_row == line % FONT_HEIGHT
               IN [fb EXCEPT !.render_line =
                     [word_col \in 0..(HORIZONTAL_WORDS - 1) |->
                        LET text_col == word_col * 2
                            left == font_lookup(fb.text[text_row][text_col], font_row)
                            right == font_lookup(fb.text[text_row][text_col + 1], font_row)
                        IN BitOr(Shl16(right, 8), left)]]
          ELSE [fb EXCEPT !.render_line =
                  [word_col \in 0..(HORIZONTAL_WORDS - 1) |-> 0]]
  ELSE fb

\* render that leaves render_line as it is below the last row of text
render_keeps_stale_line(fb) ==
  IF is_some(fb.fb_line)
  THEN LET line == unwrap(fb.fb_line)
       IN IF line < VISIBLE_LINES_WITH_TEXT
          THEN LET text_row == line \div FONT_HEIGHT
                   font_row == line % FONT_HEIGHT
               IN [fb EXCEPT !.render_line =
                     [word_col \in 0..(HORIZONTAL_WORDS - 1) |->
                        LET text_col == word_col * 2
                            left == font_lookup(fb.text[text_row][text_col], font_row)
                            right == font_lookup(fb.text[text_row][text_col + 1], font_row)
                        IN BitOr(Shl16(left, 8), right)]]
          ELSE fb
  ELSE fb

render(fb) ==
  IF is_some(fb.fb_line)
  THEN LET line == unwrap(fb.fb_line)
       IN IF line < VISIBLE_LINES_WITH_TEXT
          THEN LET text_row == line \div FONT_HEIGHT
                   font_row == line % FONT_HEIGHT
               IN [fb EXCEPT !.render_line =
                     [word_col \in 0..(HORIZONTAL_WORDS - 1) |->
                        LET text_col == word_col * 2
                            left == font_lookup(fb.text[text_row][text_col], font_row)
                            right == font_lookup(fb.text[text_row][text_col + 1], font_row)
                        IN BitOr(Shl16(left, 8), right)]]
          ELSE [fb EXCEPT !.render_line =
                  [word_col \in 0..(HORIZONTAL_WORDS - 1) |-> 0]]
  ELSE fb

\* Whether FONT_DATA[index] of font_lookup(glyph, row) passes its bounds
\* check.
font_lookup_in_bounds(glyph, row) ==
  (glyph * FONT_HEIGHT) + row < Len(FONT_DATA)

\* Whether every indexing of render(fb) passes its bounds check:
\* self.text[text_row], [text_col] and [text_col + 1], and the two
\* font_lookup calls, for every word of render_line.  A failed check
\* panics.
render_in_bounds(fb) ==
  (is_some(fb.fb_line) /\ unwrap(fb.fb_line) < VISIBLE_LINES_WITH_TEXT)
    => LET text_row == unwrap(fb.fb_line) \div FONT_HEIGHT
           font_row == unwrap(fb.fb_line) % FONT_HEIGHT
       IN /\ text_row \in DOMAIN fb.text
          /\ \A word_col \in DOMAIN fb.render_line :
               LET text_col == word_col * 2
               IN /\ text_col \in DOMAIN fb.text[text_row]
                  /\ text_col + 1 \in DOMAIN fb.text[text_row]
                  /\ font_lookup_in_bounds(fb.text[text_row][text_col],
                                           font_row)
                  /\ font_lookup_in_bounds(fb.text[text_row][text_col + 1],
                                           font_row)

(* ------------------------------------------------------------------ *)
(* start_of_line: the line sequencer                                    *)
(* ------------------------------------------------------------------ *)

next_line_no_nowrap(line_no) ==
  line_no + 1

\* line_no += 1; if line_no == V_WHOLE_FRAME { line_no = 0 }
next_line_no(line_no) ==
  IF line_no + 1 = V_WHOLE_FRAME THEN 0 ELSE line_no + 1

is_visible_line_inclusive(line_no) ==
  (line_no >= V_SYNC_PULSE + V_BACK_PORCH)
    /\ (line_no <= V_SYNC_PULSE + V_BACK_PORCH + V_VISIBLE_AREA)

\* the condition selecting the "Visible lines" branch
is_visible_line(line_no) ==
  (line_no >= V_SYNC_PULSE + V_BACK_PORCH)
    /\ (line_no < V_SYNC_PULSE + V_BACK_PORCH + V_VISIBLE_AREA)

visible_fb_line_unshifted(line_no) ==
  line_no - (V_SYNC_PULSE + V_BACK_PORCH)

visible_fb_line_rounded_up(line_no) ==
  Shr((line_no - (V_SYNC_PULSE + V_BACK_PORCH)) + 1, 1)

\* the value stored in fb_line on a visible line
visible_fb_line(line_no) ==
  Shr(line_no - (V_SYNC_PULSE + V_BACK_PORCH), 1)

\* A variant of start_of_line that renders before fb_line is updated.
start_of_line_render_first(fb_info) ==
  LET fb0 == render(fb_info)
      fb1 == [fb0 EXCEPT !.line_no = next_line_no(fb_info.line_no)]
  IN IF is_visible_line(fb1.line_no)
     THEN [fb1 EXCEPT !.fb_line = Some(visible_fb_line(fb1.line_no))]
     ELSE [fb1 EXCEPT !.fb_line = None]

\* A variant of start_of_line that blanks render_line on the lines
\* without picture.
start_of_line_blanks_render_line(fb_info) ==
  LET fb1 == [fb_info EXCEPT !.line_no = next_line_no(fb_info.line_no)]
  IN IF is_visible_line(fb1.line_no)
     THEN render([fb1 EXCEPT !.fb_line = Some(visible_fb_line(fb1.line_no))])
     ELSE [fb1 EXCEPT !.fb_line = None,
                      !.render_line = [w \in 0..(HORIZONTAL_WORDS - 1) |-> 0]]

\* The FrameBuffer start_of_line(fb_info) leaves.
start_of_line(fb_info) ==
  LET fb1 == [fb_info EXCEPT !.line_no = next_line_no(fb_info.line_no)]
  IN IF is_visible_line(fb1.line_no)
     THEN render([fb1 EXCEPT !.fb_line = Some(visible_fb_line(fb1.line_no))])
     ELSE [fb1 EXCEPT !.fb_line = None]

\* The FrameBuffer as start_of_line(fb_info) has it when it reaches the
\* call of render, or its end on a line without one.
start_of_line_sequenced(fb_info) ==
  LET fb1 == [fb_info EXCEPT !.line_no = next_line_no(fb_info.line_no)]
  IN IF is_visible_line(fb1.line_no)
     THEN [fb1 EXCEPT !.fb_line = Some(visible_fb_line(fb1.line_no))]
     ELSE [fb1 EXCEPT !.fb_line = None]

\* Whether start_of_line(fb_info) panics in render.
start_of_line_panics(fb_info) ==
  ~render_in_bounds(start_of_line_sequenced(fb_info))

\* A variant of start_of_line's writes to PC4 with the two writes of the
\* vertical sync pulse in place.
start_of_line_gpio_with_vsync(fb_info) ==
  (IF next_line_no(fb_info.line_no) = 0 THEN << TRUE >> ELSE << >>)
  \o (IF next_line_no(fb_info.line_no) = V_SYNC_PULSE
      THEN << FALSE >> ELSE << >>)
  \o (IF is_visible_line(next_line_no(fb_info.line_no))
      THEN << TRUE, FALSE >>
      ELSE << >>)

\* The values start_of_line(fb_info) writes to GPIO port C bit 4, in
\* order: high before render and low after it, on visible lines only (the
\* writes at line 0 and at line V_SYNC_PULSE are commented out).
start_of_line_gpio(fb_info) ==
  IF is_visible_line(next_line_no(fb_info.line_no))
  THEN << TRUE, FALSE >>
  ELSE << >>

(* ------------------------------------------------------------------ *)
(* start_of_data: the pixel clock-out loop                              *)
(* ------------------------------------------------------------------ *)

data_enabled_always(fb_info) ==
  TRUE

data_enabled_inverted(fb_info) ==
  ~is_some(fb_info.fb_line)

\* if fb_info.fb_line.is_some() { ... }
data_enabled(fb_info) ==
  is_some(fb_info.fb_line)

\* SSI status register bit TNF: transmit FIFO not full
tnf(fifo) ==
  Len(fifo) < FifoDepth

spin_wait_skipped(fifo) ==
  TRUE

spin_wait_done_inverted(fifo) ==
  ~tnf(fifo)

\* the exit condition of `while ssi.sr.read().tnf().bit_is_clear() { nop }`
spin_wait_done(fifo) ==
  tnf(fifo)

words_exhausted_early(idx) ==
  idx >= HORIZONTAL_WORDS - 1

\* render_line.iter() is exhausted
words_exhausted(idx) ==
  idx >= HORIZONTAL_WORDS

(* ------------------------------------------------------------------ *)
(* Interrupt controller                                                 *)
(* ------------------------------------------------------------------ *)

Irqs == { "TIMER0A", "TIMER0B" }

\* Timer0 raw interrupt flag behind each interrupt line (imr/icr bits
\* CAE and CBE).
irq_flag(irq) ==
  IF irq = "TIMER0A" THEN "CAE" ELSE "CBE"

\* The vector number of each interrupt taken for its index
irq_slot_from_vector(irq) ==
  IF irq = "TIMER0A" THEN 35 ELSE 36

\* Index into INTERRUPTS of the slot holding each handler.
irq_slot(irq) ==
  IF irq = "TIMER0A" THEN 19 ELSE 20

\* The function that services each interrupt of the program.
irq_handler(irq) ==
  IF irq = "TIMER0A" THEN "timer0a_isr" ELSE "timer0b_isr"

\* The interrupt part of the vector table, entry by entry: the handler
\* the core calls for the interrupt of each index, if the slot has one.
INTERRUPTS ==
  << Some("default_handler"), Some("default_handler"), Some("default_handler"),
     Some("default_handler"), Some("default_handler"), Some("default_handler"),
     Some("default_handler"), Some("default_handler"), Some("default_handler"),
     None, None, None,
     None, None, Some("default_handler"),
     Some("default_handler"), Some("default_handler"), Some("default_handler"),
     Some("default_handler"), Some("timer0a_isr"), Some("timer0b_isr"),
     Some("default_handler"), Some("default_handler"), Some("default_handler"),
     Some("default_handler"), Some("default_handler"), Some("default_handler"),
     None, Some("default_handler"), Some("default_handler"),
     Some("default_handler"), None, None,
     Some("default_handler"), Some("default_handler"), Some("default_handler"),
     Some("default_handler"), Some("default_handler"), None,
     Some("default_handler"), None, None,
     None, Some("default_handler"), Some("default_handler"),
     None, Some("default_handler"), Some("default_handler"),
     Some("default_handler"), Some("default_handler"), Some("default_handler"),
     Some("default_handler"), None, None,
     None, None, None,
     Some("default_handler"), Some("default_handler"), Some("default_handler"),
     Some("default_handler"), Some("default_handler"), Some("default_handler"),
     Some("default_handler"), None, None,
     None, None, Some("default_handler"),
     Some("default_handler"), Some("default_handler"), Some("default_handler"),
     None, None, None,
     None, None, None,
     None, None, None,
     None, None, None,
     None, None, None,
     None, None, None,
     None, None, Some("default_handler"),
     Some("default_handler"), Some("default_handler"), Some("default_handler"),
     Some("default_handler"), Some("default_handler"), Some("default_handler"),
     Some("default_handler"), Some("default_handler"), Some("default_handler"),
     Some("default_handler"), Some("default_handler"), Some("default_handler"),
     Some("default_handler"), Some("default_handler"), None,
     None, None, None,
     None, None, None,
     None, None, None,
     None, None, None,
     None, None, None,
     None, None, None,
     None, None, None,
     None, None, None,
     None, None, None,
     None, None, None,
     None >>

\* The entry the core fetches for an interrupt: INTERRUPTS[slot], 0-based
\* as in the source.
dispatch(slot) ==
  INTERRUPTS[slot + 1]

irq_priority_a_above_b(irq) ==
  IF irq = "TIMER0A" THEN 0 ELSE 1

irq_priority_b_above_a(irq) ==
  IF irq = "TIMER0B" THEN 0 ELSE 1

\* main enables both interrupts and never sets a priority, so both keep
\* the reset priority.
irq_priority(irq) ==
  0

Range(s) == { s[i] : i \in DOMAIN s }

(* ------------------------------------------------------------------ *)
(* State                                                                *)
(* ------------------------------------------------------------------ *)

VARIABLES
  FB_INFO,     \* the FrameBuffer inside static FB_INFO
  borrow,      \* RefCell borrow state of FB_INFO: "none", "shared", "mut"
  main_pc,     \* position of main
  primask,     \* TRUE while interrupts are disabled (interrupt::free)
  nvic_en,     \* interrupts enabled in the NVIC
  timer_en,    \* Timer0 A and B running (ctl.taen / ctl.tben)
  timer_next,  \* which match event of the line period comes next
  ris,         \* Timer0 raw interrupt flags that are set
  imr,         \* Timer0 interrupt mask: flags that reach the NVIC
  ssi_en,      \* SSI2 enabled (cr1.sse)
  ssi_fifo,    \* SSI2 transmit FIFO, oldest word first
  pc4,         \* level of GPIO port C bit 4
  active,      \* stack of executing handlers, innermost last
  isr_pc,      \* position of each handler
  word_idx,    \* index of start_of_data's loop over render_line
  panicked,    \* a RefCell borrow failed
  calls,       \* history: number of completed start_of_line calls
  vis_calls,   \* history: calls of the current frame that left fb_line Some
  dr_log,      \* history: words written to ssi.dr by the current/last start_of_data
  overrun,     \* history: a word was written to ssi.dr while the FIFO was full
  call_log,    \* history: the FrameBuffer method calls made by SpecText
  fb_before,   \* history: the FrameBuffer before the last call of call_log,
               \* None while call_log is empty
  tar,         \* Timer0A's counter (followed tick by tick under SpecTimer only)
  tbr,         \* Timer0B's counter (followed tick by tick under SpecTimer only)
  ticks,       \* history: timer clock ticks since the timers were enabled
  ev_log       \* history: the capture events raised, as << flag, ticks >>

vars == << FB_INFO, borrow, main_pc, primask, nvic_en, timer_en, timer_next,
           ris, imr, ssi_en, ssi_fifo, pc4, active, isr_pc, word_idx,
           panicked, calls, vis_calls, dr_log, overrun, call_log,
           fb_before, tar, tbr, ticks, ev_log >>

Init ==
  /\ FB_INFO = FrameBufferNew
  /\ borrow = "none"
  /\ main_pc = "start"
  /\ primask = FALSE
  /\ nvic_en = {}
  /\ timer_en = FALSE
  /\ timer_next = "A"
  /\ ris = {}
  /\ imr = {}
  /\ ssi_en = FALSE
  /\ ssi_fifo = << >>
  /\ pc4 = FALSE
  /\ active = << >>
  /\ isr_pc = [i \in Irqs |-> "idle"]
  /\ word_idx = 0
  /\ panicked = FALSE
  /\ calls = 0
  /\ vis_calls = 0
  /\ dr_log = << >>
  /\ overrun = FALSE
  /\ call_log = << >>
  /\ fb_before = None
  /\ tar = 0
  /\ tbr = 0
  /\ ticks = 0
  /\ ev_log = << >>

(* ------------------------------------------------------------------ *)
(* main                                                                 *)
(* ------------------------------------------------------------------ *)

InThreadMode == active = << >> /\ ~panicked

\* "ABRACADABRA!"
Greeting == << 65, 66, 82, 65, 67, 65, 68, 65, 66, 82, 65, 33 >>

\* The body of the closure main passes to interrupt::free.
main_text(fb) ==
  LET fb1 == write_string(fb, Greeting, 0, 0)
      fb2 == write_char(fb1, 65, 0, MAX_Y)
      fb3 == write_char(fb2, 65, MAX_X, 0)
  IN write_char(fb3, 65, MAX_X, MAX_Y)

MainNvicEnable ==
  /\ InThreadMode /\ main_pc = "start"
  /\ nvic_en' = { "TIMER0A", "TIMER0B" }
  /\ main_pc' = "nvic_enabled"
  /\ UNCHANGED << FB_INFO, borrow, primask, timer_en, timer_next, ris, imr,
                  ssi_en, ssi_fifo, pc4, active, isr_pc, word_idx, panicked,
                  calls, vis_calls, dr_log, overrun, call_log, fb_before,
                  tar, tbr, ticks, ev_log >>

\* The closure entered without interrupts being disabled
MainCsEnter_unmasked ==
  /\ InThreadMode /\ main_pc = "nvic_enabled"
  /\ primask' = primask
  /\ IF borrow = "none"
     THEN borrow' = "mut" /\ main_pc' = "in_cs" /\ UNCHANGED panicked
     ELSE panicked' = TRUE /\ UNCHANGED << borrow, main_pc >>
  /\ UNCHANGED << FB_INFO, nvic_en, timer_en, timer_next, ris, imr, ssi_en,
                  ssi_fifo, pc4, active, isr_pc, word_idx, calls, vis_calls, dr_log,
                  overrun, call_log, fb_before,
                  tar, tbr, ticks, ev_log >>

\* cortex_m::interrupt::free(|cs| { let mut fb = FB_INFO.borrow(&cs).borrow_mut();
MainCsEnter ==
  /\ InThreadMode /\ main_pc = "nvic_enabled"
  /\ primask' = TRUE
  /\ IF borrow = "none"
     THEN borrow' = "mut" /\ main_pc' = "in_cs" /\ UNCHANGED panicked
     ELSE panicked' = TRUE /\ UNCHANGED << borrow, main_pc >>
  /\ UNCHANGED << FB_INFO, nvic_en, timer_en, timer_next, ris, imr, ssi_en,
                  ssi_fifo, pc4, active, isr_pc, word_idx, calls, vis_calls, dr_log,
                  overrun, call_log, fb_before,
                  tar, tbr, ticks, ev_log >>

\* fb.write_string("ABRACADABRA!", 0, 0)
MainWriteString ==
  /\ InThreadMode /\ main_pc = "in_cs"
  /\ FB_INFO' = write_string(FB_INFO, Greeting, 0, 0)
  /\ main_pc' = "wrote_string"
  /\ UNCHANGED << borrow, primask, nvic_en, timer_en, timer_next, ris, imr,
                  ssi_en, ssi_fifo, pc4, active, isr_pc, word_idx, panicked,
                  calls, vis_calls, dr_log, overrun, call_log, fb_before,
                  tar, tbr, ticks, ev_log >>

\* fb.write_char('A', 0, MAX_Y)
MainWriteBottomLeft ==
  /\ InThreadMode /\ main_pc = "wrote_string"
  /\ FB_INFO' = write_char(FB_INFO, 65, 0, MAX_Y)
  /\ main_pc' = "wrote_bottom_left"
  /\ UNCHANGED << borrow, primask, nvic_en, timer_en, timer_next, ris, imr,
                  ssi_en, ssi_fifo, pc4, active, isr_pc, word_idx, panicked,
                  calls, vis_calls, dr_log, overrun, call_log, fb_before,
                  tar, tbr, ticks, ev_log >>

\* fb.write_char('A', MAX_X, 0)
MainWriteTopRight ==
  /\ InThreadMode /\ main_pc = "wrote_bottom_left"
  /\ FB_INFO' = write_char(FB_INFO, 65, MAX_X, 0)
  /\ main_pc' = "wrote_top_right"
  /\ UNCHANGED << borrow, primask, nvic_en, timer_en, timer_next, ris, imr,
                  ssi_en, ssi_fifo, pc4, active, isr_pc, word_idx, panicked,
                  calls, vis_calls, dr_log, overrun, call_log, fb_before,
                  tar, tbr, ticks, ev_log >>

\* fb.write_char('A', MAX_X, MAX_Y)
MainWriteBottomRight ==
  /\ InThreadMode /\ main_pc = "wrote_top_right"
  /\ FB_INFO' = write_char(FB_INFO, 65, MAX_X, MAX_Y)
  /\ main_pc' = "text_written"
  /\ UNCHANGED << borrow, primask, nvic_en, timer_en, timer_next, ris, imr,
                  ssi_en, ssi_fifo, pc4, active, isr_pc, word_idx, panicked,
                  calls, vis_calls, dr_log, overrun, call_log, fb_before,
                  tar, tbr, ticks, ev_log >>

\* The closure returns: fb goes out of scope and interrupts are enabled again.
MainCsExit ==
  /\ InThreadMode /\ main_pc = "text_written"
  /\ borrow' = "none"
  /\ primask' = FALSE
  /\ main_pc' = "cs_done"
  /\ UNCHANGED << FB_INFO, nvic_en, timer_en, timer_next, ris, imr, ssi_en,
                  ssi_fifo, pc4, active, isr_pc, word_idx, panicked, calls, vis_calls,
                  dr_log, overrun, call_log, fb_before,
                  tar, tbr, ticks, ev_log >>

MainSsiEnable ==
  /\ InThreadMode /\ main_pc = "cs_done"
  /\ ssi_en' = TRUE
  /\ main_pc' = "ssi_enabled"
  /\ UNCHANGED << FB_INFO, borrow, primask, nvic_en, timer_en, timer_next,
                  ris, imr, ssi_fifo, pc4, active, isr_pc, word_idx, panicked,
                  calls, vis_calls, dr_log, overrun, call_log, fb_before,
                  tar, tbr, ticks, ev_log >>

\* h_timer.cfg.write(|w| w.cfg()._16_bit()): each half of Timer0 is a
\* counter of this many bits.
TimerWidth == 16

\* What a register of TimerWidth bits keeps of a value written to it.
timer_load(value) == value % (2 ^ TimerWidth)

\* h_timer.tailr.modify(|_, w| w.bits(H_WHOLE_LINE - 1))
TAILR == H_WHOLE_LINE - 1

TBILR_unreduced == H_WHOLE_LINE

\* h_timer.tbilr.modify(|_, w| w.bits(H_WHOLE_LINE - 1))
TBILR == H_WHOLE_LINE - 1

\* h_timer.tamatchr.modify(|_, w| w.bits(H_SYNC_END - 1))
TAMATCHR == H_SYNC_END - 1

\* h_timer.tbmatchr.modify(|_, w| w.bits(H_LINE_START - 1))
TBMATCHR == H_LINE_START - 1

MainTimerConfig ==
  /\ InThreadMode /\ main_pc = "ssi_enabled"
  /\ imr' = { "CAE", "CBE" }
  /\ ris' = ris \ { "TBM", "TBTO" }
  /\ tar' = timer_load(TAILR)
  /\ tbr' = timer_load(TBILR)
  /\ main_pc' = "timer_configured"
  /\ UNCHANGED << FB_INFO, borrow, primask, nvic_en, timer_en, timer_next,
                  ssi_en, ssi_fifo, pc4, active, isr_pc, word_idx, panicked,
                  calls, vis_calls, dr_log, overrun, call_log, fb_before,
                  ticks, ev_log >>

\* A variant of main that sets TAEN and TBEN before it writes the text.
MainTimerEnable_before_text ==
  /\ InThreadMode /\ main_pc = "nvic_enabled"
  /\ ~timer_en
  /\ timer_en' = TRUE
  /\ UNCHANGED << FB_INFO, borrow, main_pc, primask, nvic_en, timer_next,
                  ris, imr, ssi_en, ssi_fifo, pc4, active, isr_pc, word_idx,
                  panicked, calls, vis_calls, dr_log, overrun, call_log,
                  fb_before, tar, tbr, ticks, ev_log >>

MainTimerEnable ==
  /\ InThreadMode /\ main_pc = "timer_configured"
  /\ timer_en' = TRUE
  /\ main_pc' = "done"
  /\ UNCHANGED << FB_INFO, borrow, primask, nvic_en, timer_next, ris, imr,
                  ssi_en, ssi_fifo, pc4, active, isr_pc, word_idx, panicked,
                  calls, vis_calls, dr_log, overrun, call_log, fb_before,
                  tar, tbr, ticks, ev_log >>

(* ------------------------------------------------------------------ *)
(* Hardware: Timer0 match events and the SSI2 shifter                   *)
(* ------------------------------------------------------------------ *)

\* Both timers count down from the same reload value and raise one
\* capture event each per line, Timer0A's first (SpecTimer follows the
\* counters tick by tick).
TimerEventA ==
  /\ timer_en /\ timer_next = "A"
  /\ ris' = ris \cup { "CAE" }
  /\ timer_next' = "B"
  /\ UNCHANGED << FB_INFO, borrow, main_pc, primask, nvic_en, timer_en, imr,
                  ssi_en, ssi_fifo, pc4, active, isr_pc, word_idx, panicked,
                  calls, vis_calls, dr_log, overrun, call_log, fb_before,
                  tar, tbr, ticks, ev_log >>

\* Spec follows the program for MaxCalls lines.
TimerMatchA ==
  /\ calls < MaxCalls
  /\ TimerEventA

TimerMatchB ==
  /\ timer_en /\ timer_next = "B"
  /\ ris' = ris \cup { "CBE" }
  /\ timer_next' = "A"
  /\ UNCHANGED << FB_INFO, borrow, main_pc, primask, nvic_en, timer_en, imr,
                  ssi_en, ssi_fifo, pc4, active, isr_pc, word_idx, panicked,
                  calls, vis_calls, dr_log, overrun, call_log, fb_before,
                  tar, tbr, ticks, ev_log >>

\* The shifter takes the oldest word of the FIFO at the pixel clock.
SsiShiftOut ==
  /\ ssi_en /\ ssi_fifo # << >>
  /\ ssi_fifo' = Tail(ssi_fifo)
  /\ UNCHANGED << FB_INFO, borrow, main_pc, primask, nvic_en, timer_en,
                  timer_next, ris, imr, ssi_en, pc4, active, isr_pc, word_idx,
                  panicked, calls, vis_calls, dr_log, overrun,
                  call_log, fb_before,
                  tar, tbr, ticks, ev_log >>

(* ------------------------------------------------------------------ *)
(* Exception entry                                                      *)
(* ------------------------------------------------------------------ *)

Executing(irq) == active # << >> /\ active[Len(active)] = irq /\ ~panicked

Pending(irq) == irq \in nvic_en /\ irq_flag(irq) \in (ris \cap imr)

\* An interrupt is taken only when its priority is strictly higher
\* (numerically lower) than that of every handler already executing.
Eligible(irq) ==
  /\ Pending(irq)
  /\ isr_pc[irq] = "idle"
  /\ \A a \in Range(active) : irq_priority(irq) < irq_priority(a)

\* Among eligible interrupts the highest priority wins, and among equal
\* priorities the lowest slot of the vector table.
Precedes(i, j) ==
  \/ irq_priority(i) < irq_priority(j)
  \/ irq_priority(i) = irq_priority(j) /\ irq_slot(i) < irq_slot(j)

CanEnter(irq) ==
  /\ ~primask /\ ~panicked
  /\ Eligible(irq)
  /\ \A o \in Irqs \ { irq } : Eligible(o) => Precedes(irq, o)

(* ------------------------------------------------------------------ *)
(* timer0a_isr                                                          *)
(* ------------------------------------------------------------------ *)

\* FB_INFO.borrow(&cs).borrow_mut()
Timer0aEnter ==
  /\ CanEnter("TIMER0A")
  /\ dispatch(irq_slot("TIMER0A")) = Some(irq_handler("TIMER0A"))
  /\ active' = Append(active, "TIMER0A")
  /\ IF borrow = "none"
     THEN /\ borrow' = "mut"
          /\ isr_pc' = [isr_pc EXCEPT !["TIMER0A"] = "entered"]
          /\ UNCHANGED panicked
     ELSE /\ panicked' = TRUE
          /\ UNCHANGED << borrow, isr_pc >>
  /\ UNCHANGED << FB_INFO, main_pc, primask, nvic_en, timer_en, timer_next,
                  ris, imr, ssi_en, ssi_fifo, pc4, word_idx, calls, vis_calls, dr_log,
                  overrun, call_log, fb_before,
                  tar, tbr, ticks, ev_log >>

\* start_of_line(&mut fb_info).  A panic inside render stops the program
\* between the two writes to PC4.
Timer0aStartOfLineCounted(count) ==
  /\ Executing("TIMER0A") /\ isr_pc["TIMER0A"] = "entered"
  /\ IF start_of_line_panics(FB_INFO)
     THEN /\ FB_INFO' = start_of_line_sequenced(FB_INFO)
          /\ pc4' = start_of_line_gpio(FB_INFO)[1]
          /\ panicked' = TRUE
          /\ UNCHANGED isr_pc
     ELSE /\ FB_INFO' = start_of_line(FB_INFO)
          /\ LET writes == start_of_line_gpio(FB_INFO)
             IN pc4' = IF writes = << >> THEN pc4 ELSE writes[Len(writes)]
          /\ isr_pc' = [isr_pc EXCEPT !["TIMER0A"] = "body_done"]
          /\ UNCHANGED panicked
  /\ calls' = count
  /\ vis_calls' = IF FB_INFO'.line_no = 0 THEN 0
                  ELSE IF is_some(FB_INFO'.fb_line) THEN vis_calls + 1
                  ELSE vis_calls
  /\ UNCHANGED << borrow, main_pc, primask, nvic_en, timer_en, timer_next,
                  ris, imr, ssi_en, ssi_fifo, active, word_idx,
                  dr_log, overrun, call_log, fb_before,
                  tar, tbr, ticks, ev_log >>

\* Spec counts every call of start_of_line.
Timer0aStartOfLine ==
  Timer0aStartOfLineCounted(calls + 1)

\* A variant of the end of timer0a_isr that writes every bit of icr.
Timer0aExit_clears_all ==
  /\ Executing("TIMER0A") /\ isr_pc["TIMER0A"] = "body_done"
  /\ ris' = {}
  /\ borrow' = "none"
  /\ active' = SubSeq(active, 1, Len(active) - 1)
  /\ isr_pc' = [isr_pc EXCEPT !["TIMER0A"] = "idle"]
  /\ UNCHANGED << FB_INFO, main_pc, primask, nvic_en, timer_en, timer_next,
                  imr, ssi_en, ssi_fifo, pc4, word_idx, panicked, calls, vis_calls,
                  dr_log, overrun, call_log, fb_before,
                  tar, tbr, ticks, ev_log >>

\* timer.icr.write(caecint); fb_info goes out of scope; exception return
Timer0aExit ==
  /\ Executing("TIMER0A") /\ isr_pc["TIMER0A"] = "body_done"
  /\ ris' = ris \ { "CAE" }
  /\ borrow' = "none"
  /\ active' = SubSeq(active, 1, Len(active) - 1)
  /\ isr_pc' = [isr_pc EXCEPT !["TIMER0A"] = "idle"]
  /\ UNCHANGED << FB_INFO, main_pc, primask, nvic_en, timer_en, timer_next,
                  imr, ssi_en, ssi_fifo, pc4, word_idx, panicked, calls, vis_calls,
                  dr_log, overrun, call_log, fb_before,
                  tar, tbr, ticks, ev_log >>

(* ------------------------------------------------------------------ *)
(* timer0b_isr                                                          *)
(* ------------------------------------------------------------------ *)

\* FB_INFO.borrow(&cs).borrow()
Timer0bEnter ==
  /\ CanEnter("TIMER0B")
  /\ dispatch(irq_slot("TIMER0B")) = Some(irq_handler("TIMER0B"))
  /\ active' = Append(active, "TIMER0B")
  /\ IF borrow # "mut"
     THEN /\ borrow' = "shared"
          /\ isr_pc' = [isr_pc EXCEPT !["TIMER0B"] = "entered"]
          /\ dr_log' = << >>
          /\ UNCHANGED panicked
     ELSE /\ panicked' = TRUE
          /\ UNCHANGED << borrow, isr_pc, dr_log >>
  /\ UNCHANGED << FB_INFO, main_pc, primask, nvic_en, timer_en, timer_next,
                  ris, imr, ssi_en, ssi_fifo, pc4, word_idx, calls, vis_calls, overrun,
                  call_log, fb_before,
                  tar, tbr, ticks, ev_log >>

\* A variant of the start of start_of_data that takes the line out of
\* fb_line as it tests it.
StartOfDataBegin_takes_line ==
  /\ Executing("TIMER0B") /\ isr_pc["TIMER0B"] = "entered"
  /\ IF data_enabled(FB_INFO) /\ ~words_exhausted(0)
     THEN isr_pc' = [isr_pc EXCEPT !["TIMER0B"] = "write"]
     ELSE isr_pc' = [isr_pc EXCEPT !["TIMER0B"] = "body_done"]
  /\ FB_INFO' = [FB_INFO EXCEPT !.fb_line = None]
  /\ word_idx' = 0
  /\ UNCHANGED << borrow, main_pc, primask, nvic_en, timer_en,
                  timer_next, ris, imr, ssi_en, ssi_fifo, pc4, active,
                  panicked, calls, vis_calls, dr_log, overrun,
                  call_log, fb_before,
                  tar, tbr, ticks, ev_log >>

\* start_of_data: the test of fb_line and the start of the loop
StartOfDataBegin ==
  /\ Executing("TIMER0B") /\ isr_pc["TIMER0B"] = "entered"
  /\ IF data_enabled(FB_INFO) /\ ~words_exhausted(0)
     THEN isr_pc' = [isr_pc EXCEPT !["TIMER0B"] = "write"]
     ELSE isr_pc' = [isr_pc EXCEPT !["TIMER0B"] = "body_done"]
  /\ word_idx' = 0
  /\ UNCHANGED << FB_INFO, borrow, main_pc, primask, nvic_en, timer_en,
                  timer_next, ris, imr, ssi_en, ssi_fifo, pc4, active,
                  panicked, calls, vis_calls, dr_log, overrun,
                  call_log, fb_before,
                  tar, tbr, ticks, ev_log >>

\* Where the loop stands once the spin-wait has ended after word idx.
after_word(idx) ==
  IF words_exhausted(idx + 1) THEN "body_done" ELSE "write"

\* ssi.dr.write(*word), then the first read of the status register.  A
\* word written to a full FIFO is dropped by the peripheral.  When the
\* first read already ends the spin-wait the loop moves on; otherwise the
\* handler is left spinning.
StartOfDataWrite ==
  /\ Executing("TIMER0B") /\ isr_pc["TIMER0B"] = "write"
  /\ LET word == FB_INFO.render_line[word_idx]
     IN /\ dr_log' = Append(dr_log, word)
        /\ IF tnf(ssi_fifo)
           THEN ssi_fifo' = Append(ssi_fifo, word) /\ UNCHANGED overrun
           ELSE overrun' = TRUE /\ UNCHANGED ssi_fifo
  /\ IF spin_wait_done(ssi_fifo')
     THEN /\ word_idx' = word_idx + 1
          /\ isr_pc' = [isr_pc EXCEPT !["TIMER0B"] = after_word(word_idx)]
     ELSE /\ isr_pc' = [isr_pc EXCEPT !["TIMER0B"] = "spin"]
          /\ UNCHANGED word_idx
  /\ UNCHANGED << FB_INFO, borrow, main_pc, primask, nvic_en, timer_en,
                  timer_next, ris, imr, ssi_en, pc4, active, panicked,
                  calls, vis_calls, call_log, fb_before,
                  tar, tbr, ticks, ev_log >>

\* A later read of the status register finds room in the FIFO: the
\* spin-wait ends and the loop moves to the next word or finishes.
StartOfDataSpinDone ==
  /\ Executing("TIMER0B") /\ isr_pc["TIMER0B"] = "spin"
  /\ spin_wait_done(ssi_fifo)
  /\ word_idx' = word_idx + 1
  /\ isr_pc' = [isr_pc EXCEPT !["TIMER0B"] = after_word(word_idx)]
  /\ UNCHANGED << FB_INFO, borrow, main_pc, primask, nvic_en, timer_en,
                  timer_next, ris, imr, ssi_en, ssi_fifo, pc4, active,
                  panicked, calls, vis_calls, dr_log, overrun,
                  call_log, fb_before,
                  tar, tbr, ticks, ev_log >>

\* timer.icr.write(cbecint); fb_info goes out of scope; exception return
Timer0bExit ==
  /\ Executing("TIMER0B") /\ isr_pc["TIMER0B"] = "body_done"
  /\ ris' = ris \ { "CBE" }
  /\ borrow' = "none"
  /\ active' = SubSeq(active, 1, Len(active) - 1)
  /\ isr_pc' = [isr_pc EXCEPT !["TIMER0B"] = "idle"]
  /\ UNCHANGED << FB_INFO, main_pc, primask, nvic_en, timer_en, timer_next,
                  imr, ssi_en, ssi_fifo, pc4, word_idx, panicked, calls, vis_calls,
                  dr_log, overrun, call_log, fb_before,
                  tar, tbr, ticks, ev_log >>

(* ------------------------------------------------------------------ *)
(* Specification                                                        *)
(* ------------------------------------------------------------------ *)

Next ==
  \/ MainNvicEnable
  \/ MainCsEnter
  \/ MainWriteString
  \/ MainWriteBottomLeft
  \/ MainWriteTopRight
  \/ MainWriteBottomRight
  \/ MainCsExit
  \/ MainSsiEnable
  \/ MainTimerConfig
  \/ MainTimerEnable
  \/ TimerMatchA
  \/ TimerMatchB
  \/ SsiShiftOut
  \/ Timer0aEnter
  \/ Timer0aStartOfLine
  \/ Timer0aExit
  \/ Timer0bEnter
  \/ StartOfDataBegin
  \/ StartOfDataWrite
  \/ StartOfDataSpinDone
  \/ Timer0bExit

Spec == Init /\ [][Next]_vars

(* ------------------------------------------------------------------ *)
(* The FrameBuffer methods on their own                                 *)
(*                                                                      *)
(* main calls write_string and write_char with a handful of fixed       *)
(* arguments only.  SpecText applies the methods of FrameBuffer to      *)
(* arguments drawn from bounded sets: one write to the FrameBuffer as   *)
(* constructed, or as main leaves it, followed by one render; or two    *)
(* renders one after the other.                                         *)
(* ------------------------------------------------------------------ *)

\* Length of the longest message given to write_string.  Started from the
\* last columns of the last rows such a message crosses the end of a row
\* and the end of the grid.
MaxMsgLen == 24

\* Characters given to write_char: NUL, the printable ASCII characters,
\* DEL, U+00E9 and the largest code point.
TextChars == (32..126) \cup { 0, 127, 233, 1114111 }

\* Cells given to write_char: every cell of the grid and the first column
\* and row beyond it.
TextCols == 0..TEXT_MAX_COLS
TextRows == 0..TEXT_MAX_ROWS

\* The corners of the grid, the cells just outside them and cells far
\* outside.
EdgeCols == { 0, MAX_X, TEXT_MAX_COLS, 65535 }
EdgeRows == { 0, MAX_Y, TEXT_MAX_ROWS, 65535 }

\* write_char's arguments <<ch, x, y>>: 'A' at every cell, every character
\* at the edge cells.
TextCharCalls ==
  ({ 65 } \X TextCols \X TextRows) \cup (TextChars \X EdgeCols \X EdgeRows)

\* "AB!R Cz": mapped and unmapped characters
TextPattern == << 65, 66, 33, 82, 32, 67, 122, 68 >>

\* The first n characters of TextPattern repeated for ever.
TextMessage(n) ==
  [i \in 1..n |-> TextPattern[((i - 1) % Len(TextPattern)) + 1]]

\* Messages given to write_string: every length up to MaxMsgLen.
TextMessages == { TextMessage(n) : n \in 0..MaxMsgLen }

\* In-range cells write_string starts from.
TextStartCols == { 0, 1, MAX_X - 1, MAX_X }
TextStartRows == { 0, MAX_Y - 1, MAX_Y }

\* Stored lines given to render after a call that named row y: the
\* FONT_HEIGHT lines of that row, the first and the last line with text,
\* and the first and the last of the visible lines below the text.
TextLines(y) ==
  (IF y < TEXT_MAX_ROWS
   THEN (y * FONT_HEIGHT)..((y * FONT_HEIGHT) + (FONT_HEIGHT - 1))
   ELSE {})
  \cup { 0, VISIBLE_LINES_WITH_TEXT - 1, VISIBLE_LINES_WITH_TEXT,
         VISIBLE_LINES - 1 }

\* The row the last call named (row 0 before any call).
last_row == IF call_log = << >> THEN 0 ELSE call_log[Len(call_log)].args[3]

\* The FrameBuffer is as constructed, or as main leaves it.
TextInit ==
  /\ FB_INFO \in { FrameBufferNew, main_text(FrameBufferNew) }
  /\ fb_before = None
  /\ call_log = << >>
  /\ tar = 0
  /\ tbr = 0
  /\ ticks = 0
  /\ ev_log = << >>
  /\ borrow = "none"
  /\ main_pc = "start"
  /\ primask = FALSE
  /\ nvic_en = {}
  /\ timer_en = FALSE
  /\ timer_next = "A"
  /\ ris = {}
  /\ imr = {}
  /\ ssi_en = FALSE
  /\ ssi_fifo = << >>
  /\ pc4 = FALSE
  /\ active = << >>
  /\ isr_pc = [i \in Irqs |-> "idle"]
  /\ word_idx = 0
  /\ panicked = FALSE
  /\ calls = 0
  /\ vis_calls = 0
  /\ dr_log = << >>
  /\ overrun = FALSE

\* fb.write_char(ch, x, y)
TextWriteChar ==
  /\ call_log = << >>
  /\ \E c \in TextCharCalls :
       /\ FB_INFO' = write_char(FB_INFO, c[1], c[2], c[3])
       /\ call_log' = Append(call_log, [op |-> "write_char", args |-> c])
  /\ fb_before' = FB_INFO
  /\ UNCHANGED << borrow, main_pc, primask, nvic_en, timer_en, timer_next,
                  ris, imr, ssi_en, ssi_fifo, pc4, active, isr_pc, word_idx,
                  panicked, calls, vis_calls, dr_log, overrun,
                  tar, tbr, ticks, ev_log >>

\* fb.write_string(message, x, y)
TextWriteString ==
  /\ call_log = << >>
  /\ \E message \in TextMessages, x \in TextStartCols, y \in TextStartRows :
       /\ FB_INFO' = write_string(FB_INFO, message, x, y)
       /\ call_log' = Append(call_log, [op |-> "write_string",
                                        args |-> << message, x, y >>])
  /\ fb_before' = FB_INFO
  /\ UNCHANGED << borrow, main_pc, primask, nvic_en, timer_en, timer_next,
                  ris, imr, ssi_en, ssi_fifo, pc4, active, isr_pc, word_idx,
                  panicked, calls, vis_calls, dr_log, overrun,
                  tar, tbr, ticks, ev_log >>

\* fb_info.fb_line = Some(line); fb_info.render(), as start_of_line does
\* on a visible scanline
TextRender ==
  /\ Len(call_log) <= 1
  /\ \E line \in TextLines(last_row) :
       /\ FB_INFO' = render([FB_INFO EXCEPT !.fb_line = Some(line)])
       /\ call_log' = Append(call_log, [op |-> "render",
                                        args |-> << line, 0, last_row >>])
  /\ fb_before' = FB_INFO
  /\ UNCHANGED << borrow, main_pc, primask, nvic_en, timer_en, timer_next,
                  ris, imr, ssi_en, ssi_fifo, pc4, active, isr_pc, word_idx,
                  panicked, calls, vis_calls, dr_log, overrun,
                  tar, tbr, ticks, ev_log >>

TextNext ==
  \/ TextWriteChar
  \/ TextWriteString
  \/ TextRender

SpecText == TextInit /\ [][TextNext]_vars

(* ------------------------------------------------------------------ *)
(* Timer0 tick by tick                                                  *)
(*                                                                      *)
(* Spec keeps of the two timers the order of their capture events only. *)
(* SpecTimer follows the two counters through every tick of the timer   *)
(* clock from the state main leaves them in, and logs the capture       *)
(* events with the tick they are raised at.                             *)
(* ------------------------------------------------------------------ *)

\* Ticks followed after the timers are enabled: three line periods and
\* the start of a fourth.
MaxTicks == 6400

\* "We're counting down in PWM mode, so start at the end": a periodic
\* counter steps down to 0 and starts again from its reload value.
count_down(counter, reload) ==
  IF counter = 0 THEN timer_load(reload) ELSE counter - 1

\* The PWM output of a timer, before inversion: low while the timer is
\* disabled, asserted while the counter runs from the reload value down
\* to the match value, deasserted from the match value on.  Timer0A's is
\* the horizontal sync pulse at the start of each line.
pwm_out(enabled, counter, match) == enabled /\ counter > timer_load(match)

\* w.tapwml().clear_bit(): "Trigger Timer A capture on rising edge (i.e.
\* line start)"; w.tbpwml().set_bit(): "Trigger Timer B capture on
\* falling edge (i.e. data start)".
capture_events(a_before, a_after, b_before, b_after) ==
  (IF ~a_before /\ a_after THEN { "CAE" } ELSE {})
  \cup (IF b_before /\ ~b_after THEN { "CBE" } ELSE {})

\* The capture events of a step of the timers, in the order of ev_log.
log_events(events, at) ==
  (IF "CAE" \in events THEN << << "CAE", at >> >> ELSE << >>)
  \o (IF "CBE" \in events THEN << << "CBE", at >> >> ELSE << >>)

\* main has configured the timers and is about to enable them.
TimerInit ==
  /\ FB_INFO = main_text(FrameBufferNew)
  /\ fb_before = None
  /\ call_log = << >>
  /\ tar = timer_load(TAILR)
  /\ tbr = timer_load(TBILR)
  /\ ticks = 0
  /\ ev_log = << >>
  /\ borrow = "none"
  /\ main_pc = "timer_configured"
  /\ primask = FALSE
  /\ nvic_en = Irqs
  /\ timer_en = FALSE
  /\ timer_next = "A"
  /\ ris = {}
  /\ imr = { "CAE", "CBE" }
  /\ ssi_en = TRUE
  /\ ssi_fifo = << >>
  /\ pc4 = FALSE
  /\ active = << >>
  /\ isr_pc = [i \in Irqs |-> "idle"]
  /\ word_idx = 0
  /\ panicked = FALSE
  /\ calls = 0
  /\ vis_calls = 0
  /\ dr_log = << >>
  /\ overrun = FALSE

\* h_timer.ctl.modify(|_, w| { w.taen().set_bit(); w.tben().set_bit() }):
\* both counters start in the same write, and both outputs are asserted.
TimerStart ==
  /\ main_pc = "timer_configured"
  /\ timer_en' = TRUE
  /\ main_pc' = "done"
  /\ LET events == capture_events(pwm_out(timer_en, tar, TAMATCHR),
                                  pwm_out(TRUE, tar, TAMATCHR),
                                  pwm_out(timer_en, tbr, TBMATCHR),
                                  pwm_out(TRUE, tbr, TBMATCHR))
     IN /\ ris' = ris \cup events
        /\ ev_log' = ev_log \o log_events(events, ticks)
  /\ UNCHANGED << FB_INFO, borrow, primask, nvic_en, timer_next, imr,
                  ssi_en, ssi_fifo, pc4, active, isr_pc, word_idx, panicked,
                  calls, vis_calls, dr_log, overrun, call_log, fb_before,
                  tar, tbr, ticks >>

\* One tick of the timer clock: both counters step, and the edges of the
\* two outputs raise their capture events.
TimerTick ==
  /\ timer_en
  /\ ticks < MaxTicks
  /\ tar' = count_down(tar, TAILR)
  /\ tbr' = count_down(tbr, TBILR)
  /\ ticks' = ticks + 1
  /\ LET events == capture_events(pwm_out(timer_en, tar, TAMATCHR),
                                  pwm_out(timer_en, tar', TAMATCHR),
                                  pwm_out(timer_en, tbr, TBMATCHR),
                                  pwm_out(timer_en, tbr', TBMATCHR))
     IN /\ ris' = ris \cup events
        /\ ev_log' = ev_log \o log_events(events, ticks')
  /\ UNCHANGED << FB_INFO, borrow, main_pc, primask, nvic_en, timer_en,
                  timer_next, imr, ssi_en, ssi_fifo, pc4, active, isr_pc,
                  word_idx, panicked, calls, vis_calls, dr_log, overrun,
                  call_log, fb_before >>

TimerNext ==
  \/ TimerStart
  \/ TimerTick

SpecTimer == TimerInit /\ [][TimerNext]_vars

(* ------------------------------------------------------------------ *)
(* The program running for ever                                         *)
(*                                                                      *)
(* SpecLive is the program of Spec without the bound on the number of   *)
(* lines: start_of_line calls are counted within the frame, so that the *)
(* states of one frame are those of the next.  The timers deliver their *)
(* events as the design requires: each event is raised once the event   *)
(* before it has been serviced, that is, each handler returns before    *)
(* the next event of either timer.  The processor keeps executing, the  *)
(* timers keep counting and the SSI2 shifter keeps draining.            *)
(* ------------------------------------------------------------------ *)

\* The last timer event has been serviced: its handler has run and
\* returned.
Serviced ==
  /\ active = << >>
  /\ ris \cap { "CAE", "CBE" } = {}

LiveTimerMatchA ==
  /\ Serviced
  /\ TimerEventA

LiveTimerMatchB ==
  /\ Serviced
  /\ TimerMatchB

LiveTimer0aStartOfLine ==
  Timer0aStartOfLineCounted((calls + 1) % V_WHOLE_FRAME)

MainSteps ==
  \/ MainNvicEnable
  \/ MainCsEnter
  \/ MainWriteString
  \/ MainWriteBottomLeft
  \/ MainWriteTopRight
  \/ MainWriteBottomRight
  \/ MainCsExit
  \/ MainSsiEnable
  \/ MainTimerConfig
  \/ MainTimerEnable

LiveTimerEvents ==
  \/ LiveTimerMatchA
  \/ LiveTimerMatchB

LiveHandlerSteps ==
  \/ Timer0aEnter
  \/ LiveTimer0aStartOfLine
  \/ Timer0aExit
  \/ Timer0bEnter
  \/ StartOfDataBegin
  \/ StartOfDataWrite
  \/ StartOfDataSpinDone
  \/ Timer0bExit

LiveNext ==
  \/ MainSteps
  \/ LiveTimerEvents
  \/ SsiShiftOut
  \/ LiveHandlerSteps

SpecLive ==
  /\ Init
  /\ [][LiveNext]_vars
  /\ WF_vars(MainSteps)
  /\ WF_vars(LiveTimerEvents)
  /\ WF_vars(SsiShiftOut)
  /\ WF_vars(LiveHandlerSteps)

(* ------------------------------------------------------------------ *)
(* Properties                                                           *)
(* ------------------------------------------------------------------ *)

InHandler(irq) == irq \in Range(active)

FirstVisible == V_SYNC_PULSE + V_BACK_PORCH
EndVisible == V_SYNC_PULSE + V_BACK_PORCH + V_VISIBLE_AREA

\* The FrameBuffer at the moment main starts the timers.
FbAtTimerStart == main_text(FrameBufferNew)

\* Word w of the scanline that stored line l of fb's text grid renders to.
ExpectedWord(fb, l, w) ==
  IF l < VISIBLE_LINES_WITH_TEXT
  THEN (font_lookup(fb.text[l \div FONT_HEIGHT][2 * w], l % FONT_HEIGHT) * 256)
       + font_lookup(fb.text[l \div FONT_HEIGHT][(2 * w) + 1], l % FONT_HEIGHT)
  ELSE 0

\* C1: in the initial state and after every completed start_of_line call,
\* fb_line is Some exactly when line_no lies in
\* [V_SYNC_PULSE+V_BACK_PORCH, V_SYNC_PULSE+V_BACK_PORCH+V_VISIBLE_AREA)
\* = [27, 627), and None on every other line.
C1_FbLineSomeIffVisibleBand ==
  /\ FirstVisible = 27 /\ EndVisible = 627
  /\ is_some(FB_INFO.fb_line)
       <=> (FB_INFO.line_no >= FirstVisible /\ FB_INFO.line_no < EndVisible)

\* C1 witness: start_of_line has just sequenced the last scanline of the
\* visible band (line_no = 626), with fb_line still Some.
C1_Witness ==
  /\ calls = EndVisible - 1
  /\ FB_INFO.line_no = EndVisible - 1
  /\ is_some(FB_INFO.fb_line)

\* C2: after n calls of start_of_line from the initial state line_no equals
\* n mod V_WHOLE_FRAME (628), so 0 <= line_no < V_WHOLE_FRAME between calls
\* and V_WHOLE_FRAME further calls bring line_no back to the same value.
C2_LineNoIsCallsModFrame ==
  /\ V_WHOLE_FRAME = 628
  /\ FB_INFO.line_no = calls % V_WHOLE_FRAME
  /\ 0 <= FB_INFO.line_no /\ FB_INFO.line_no < V_WHOLE_FRAME

\* C2 witness: more than a whole frame of calls has been made and line_no
\* has wrapped and moved on.
C2_Witness ==
  /\ calls = V_WHOLE_FRAME + 3
  /\ FB_INFO.line_no = 3

\* C3 as claimed: fb_line is Some on the V_VISIBLE_AREA consecutive calls of
\* the visible band and takes the values 0, 1, 2, ... on them, one new value
\* per call, whatever the vertical scale factor.
C3_Original ==
  /\ is_some(FB_INFO.fb_line)
       <=> (FB_INFO.line_no >= FirstVisible /\ FB_INFO.line_no < EndVisible)
  /\ is_some(FB_INFO.fb_line)
       => unwrap(FB_INFO.fb_line) = FB_INFO.line_no - FirstVisible

\* C3 amended: within each frame fb_line is Some on exactly V_VISIBLE_AREA
\* (600) consecutive calls, and on the k-th of them (k from 0) its value is
\* k div 2: the values are 0, 0, 1, 1, ..., 299, 299, non-decreasing, each
\* stored row twice (the vertical scale factor is 2).
C3_VisibleRunDoubled ==
  /\ vis_calls = (IF FB_INFO.line_no < FirstVisible THEN 0
                  ELSE IF FB_INFO.line_no < EndVisible
                       THEN FB_INFO.line_no - FirstVisible + 1
                       ELSE V_VISIBLE_AREA)
  /\ is_some(FB_INFO.fb_line) <=> (vis_calls > 0 /\ FB_INFO.line_no < EndVisible)
  /\ is_some(FB_INFO.fb_line)
       => /\ unwrap(FB_INFO.fb_line) = (vis_calls - 1) \div 2
          /\ unwrap(FB_INFO.fb_line) < VISIBLE_LINES

\* C3 witness: the visible run of a frame is over after exactly
\* V_VISIBLE_AREA calls that left fb_line Some.
C3_Witness ==
  /\ vis_calls = V_VISIBLE_AREA
  /\ FB_INFO.line_no = EndVisible
  /\ ~is_some(FB_INFO.fb_line)

\* C4 as claimed: once start_of_line has run, PC4 (vertical sync) is asserted
\* exactly on the V_SYNC_PULSE lines 0 .. V_SYNC_PULSE-1 of each frame and
\* deasserted on every other line.
C4_VsyncPulse ==
  calls > 0 => (pc4 <=> FB_INFO.line_no < V_SYNC_PULSE)

\* C5 as claimed: the FrameBuffer carries a frame counter that a whole frame
\* of start_of_line calls increases by one, so the FrameBuffer read after
\* V_WHOLE_FRAME calls differs from the one read when the timers started.
C5_NewFrameDetectable ==
  calls = V_WHOLE_FRAME => FB_INFO # FbAtTimerStart

\* C6: whenever start_of_line has returned with fb_line = Some(l),
\* render_line is the rendering of stored line l of the current text grid,
\* and every word start_of_data writes to the SSI data register is the word
\* of that rendering at its index (never a word of an earlier scanline).
C6_RenderLineFresh ==
  /\ (isr_pc["TIMER0A"] = "body_done" /\ is_some(FB_INFO.fb_line))
       => \A w \in 0..(HORIZONTAL_WORDS - 1) :
            FB_INFO.render_line[w]
              = ExpectedWord(FB_INFO, unwrap(FB_INFO.fb_line), w)
  /\ (InHandler("TIMER0B") /\ dr_log # << >>)
       => /\ is_some(FB_INFO.fb_line)
          /\ dr_log[Len(dr_log)]
               = ExpectedWord(FB_INFO, unwrap(FB_INFO.fb_line), Len(dr_log) - 1)

\* C6 witness: start_of_data has written the whole of a scanline that shows
\* text (the first word is not blank).
C6_Witness ==
  /\ InHandler("TIMER0B")
  /\ is_some(FB_INFO.fb_line)
  /\ Len(dr_log) = HORIZONTAL_WORDS
  /\ dr_log[1] # 0

\* C7: timer0b_isr never starts, nor runs, while timer0a_isr is executing
\* (and vice versa): the two handlers are never both on the handler stack.
C7_HandlersNeverNest ==
  ~(InHandler("TIMER0A") /\ InHandler("TIMER0B"))

\* C7 witness: the Timer0B event is raised while timer0a_isr is still
\* executing, and stays pending.
C7_Witness ==
  /\ InHandler("TIMER0A")
  /\ isr_pc["TIMER0A"] = "entered"
  /\ "CBE" \in ris
  /\ ~InHandler("TIMER0B")

\* C8: start_of_data never writes a word to the SSI data register while the
\* transmit FIFO is full, on any scanline.
C8_NoWriteToFullFifo ==
  /\ ~overrun
  /\ (InHandler("TIMER0B") /\ isr_pc["TIMER0B"] = "write") => tnf(ssi_fifo)

\* C8 witness: on a scanline after the first visible one the FIFO is full
\* and start_of_data is held in its spin-wait.
C8_Witness ==
  /\ isr_pc["TIMER0B"] = "spin"
  /\ Len(ssi_fifo) = FifoDepth
  /\ calls > FirstVisible + 1

\* C9: when fb_line is Some, a completed start_of_data has written exactly
\* HORIZONTAL_WORDS (25) words, 400 pixels, to the SSI data register:
\* render_line[0], ..., render_line[24], each once and in index order.
C9_WritesWholeLineInOrder ==
  /\ HORIZONTAL_WORDS = 25 /\ HORIZONTAL_WORDS * 16 = VISIBLE_COLS
  /\ (isr_pc["TIMER0B"] = "body_done" /\ is_some(FB_INFO.fb_line))
       => /\ Len(dr_log) = HORIZONTAL_WORDS
          /\ \A i \in 1..Len(dr_log) : dr_log[i] = FB_INFO.render_line[i - 1]
  /\ (isr_pc["TIMER0B"] \in { "write", "spin" })
       => /\ Len(dr_log) = (IF isr_pc["TIMER0B"] = "spin"
                            THEN word_idx + 1 ELSE word_idx)
          /\ Len(dr_log) <= HORIZONTAL_WORDS

\* C9 witness: a completed start_of_data on a scanline whose words differ.
C9_Witness ==
  /\ isr_pc["TIMER0B"] = "body_done"
  /\ is_some(FB_INFO.fb_line)
  /\ Len(dr_log) = HORIZONTAL_WORDS
  /\ dr_log[1] # dr_log[2]

\* C10: while timer0b_isr runs with fb_line = None, no step writes a word to
\* the SSI data register (the loop is never entered, the FIFO does not
\* grow) and the FrameBuffer is left unchanged.
C10_BlankLineWritesNothing ==
  [][ (InHandler("TIMER0B") /\ ~is_some(FB_INFO.fb_line))
        => /\ dr_log = << >> /\ dr_log' = dr_log
           /\ Len(ssi_fifo') <= Len(ssi_fifo)
           /\ isr_pc'["TIMER0B"] \notin { "write", "spin" }
           /\ FB_INFO' = FB_INFO ]_vars

\* C10 witness: start_of_data has returned on a blanking line.
C10_Witness ==
  /\ InHandler("TIMER0B")
  /\ isr_pc["TIMER0B"] = "body_done"
  /\ ~is_some(FB_INFO.fb_line)
  /\ dr_log = << >>

(* ------------------------------------------------------------------ *)
(* Properties of the FrameBuffer methods (under SpecText)               *)
(* ------------------------------------------------------------------ *)

\* The last call made, and whether there is one of the given kind.
LastCall == call_log[Len(call_log)]
LastCallIs(op) == call_log # << >> /\ LastCall.op = op

InRange(x, y) == x < TEXT_MAX_COLS /\ y < TEXT_MAX_ROWS

\* The byte of render_line that text column c is clocked out from: the
\* high byte of word c div 2 for an even column, the low byte for an odd one.
ColumnByte(fb, c) ==
  IF c % 2 = 0 THEN fb.render_line[c \div 2] \div 256
  ELSE fb.render_line[c \div 2] % 256

\* C11: after render with fb_line = Some(l), l < VISIBLE_LINES_WITH_TEXT
\* (288), every word w of render_line is
\* (font_lookup(text[l div 16][2w], l mod 16) << 8)
\*   | font_lookup(text[l div 16][2w+1], l mod 16):
\* the even text column is the high byte, the odd column the low byte, and
\* each of the text columns 0..49 is the source of exactly one byte.
C11_RenderPacksTwoColumnsPerWord ==
  /\ VISIBLE_LINES_WITH_TEXT = 288 /\ HORIZONTAL_WORDS * 2 = TEXT_MAX_COLS
  /\ (LastCallIs("render") /\ unwrap(FB_INFO.fb_line) < VISIBLE_LINES_WITH_TEXT)
       => LET l == unwrap(FB_INFO.fb_line)
          IN /\ DOMAIN FB_INFO.render_line = 0..(HORIZONTAL_WORDS - 1)
             /\ \A w \in 0..(HORIZONTAL_WORDS - 1) :
                  FB_INFO.render_line[w]
                    = (font_lookup(FB_INFO.text[l \div 16][2 * w], l % 16) * 256)
                      + font_lookup(FB_INFO.text[l \div 16][(2 * w) + 1], l % 16)
             /\ \A c \in 0..(TEXT_MAX_COLS - 1) :
                  ColumnByte(FB_INFO, c)
                    = font_lookup(FB_INFO.text[l \div 16][c], l % 16)
             /\ FB_INFO.text = fb_before.text

\* C11 witness: line 0 of the text main writes has been rendered; word 0
\* holds row 0 of 'A' (0x18) above row 0 of 'B' (0x7C).
C11_Witness ==
  /\ LastCallIs("render")
  /\ FB_INFO.fb_line = Some(0)
  /\ FB_INFO.text[0][0] = Glyph("UppercaseA")
  /\ FB_INFO.text[0][1] = Glyph("UppercaseB")
  /\ FB_INFO.render_line[0] = (24 * 256) + 124

\* The 16 bytes of 'A' as written in the source of FONT_DATA, row 0 first.
UppercaseA_Bitmap ==
  << 24, 24, 36, 36, 66, 66, 66, 66, 126, 126, 66, 66, 66, 66, 0, 0 >>

\* C12: round trip.  For every in-range cell (c, r), after
\* write_char('A', c, r) the rendering of each stored line 16r + k,
\* k in 0..15, holds in word c div 2 (high byte when c is even, low byte
\* when c is odd) byte k of the compiled font bitmap of 'A'.
C12_WriteThenRenderGivesFontOfA ==
  (/\ Len(call_log) = 2
   /\ call_log[1].op = "write_char" /\ call_log[1].args[1] = 65
   /\ InRange(call_log[1].args[2], call_log[1].args[3])
   /\ call_log[2].op = "render"
   /\ unwrap(FB_INFO.fb_line) \div FONT_HEIGHT = call_log[1].args[3])
    => LET c == call_log[1].args[2]
           k == unwrap(FB_INFO.fb_line) % FONT_HEIGHT
       IN ColumnByte(FB_INFO, c) = UppercaseA_Bitmap[k + 1]

\* C12 witness: 'A' written at the last cell of the grid (odd column 49,
\* row 17) and stored line 16 * 17 + 8 rendered: the low byte of word 24 is
\* the crossbar 0x7E.
C12_Witness ==
  /\ Len(call_log) = 2
  /\ call_log[1] = [op |-> "write_char", args |-> << 65, MAX_X, MAX_Y >>]
  /\ call_log[2].op = "render"
  /\ FB_INFO.fb_line = Some((MAX_Y * FONT_HEIGHT) + 8)
  /\ FB_INFO.render_line[HORIZONTAL_WORDS - 1] % 256 = 126

\* C13: after render with fb_line = Some(l) and
\* VISIBLE_LINES_WITH_TEXT (288) <= l < VISIBLE_LINES (300), all 25 words
\* of render_line are 0, whatever the text grid holds and whatever
\* render_line held before; the text grid is left as it was.
C13_LinesBelowTextRenderBlank ==
  (/\ LastCallIs("render")
   /\ unwrap(FB_INFO.fb_line) >= VISIBLE_LINES_WITH_TEXT
   /\ unwrap(FB_INFO.fb_line) < VISIBLE_LINES)
    => /\ DOMAIN FB_INFO.render_line = 0..(HORIZONTAL_WORDS - 1)
       /\ \A w \in 0..(HORIZONTAL_WORDS - 1) : FB_INFO.render_line[w] = 0
       /\ FB_INFO.text = fb_before.text

\* C13 witness: stored line 288 is rendered right after a line of main's
\* text, so render_line held pixels before and the grid is not blank.
C13_Witness ==
  /\ Len(call_log) = 2
  /\ LastCallIs("render")
  /\ FB_INFO.fb_line = Some(VISIBLE_LINES_WITH_TEXT)
  /\ fb_before.render_line[0] # 0
  /\ FB_INFO.text[0][0] = Glyph("UppercaseA")
  /\ FB_INFO.render_line[0] = 0

\* C14: write_char(ch, x, y) is bounds-checked.  When x < TEXT_MAX_COLS
\* (50) and y < TEXT_MAX_ROWS (18) it changes the cell text[y][x] to
\* map_char(ch) and nothing else of the FrameBuffer; when
\* x >= TEXT_MAX_COLS or y >= TEXT_MAX_ROWS it leaves the FrameBuffer as it
\* was.  In neither case is an error signalled.
C14_WriteCharBoundsChecked ==
  /\ TEXT_MAX_COLS = 50 /\ TEXT_MAX_ROWS = 18
  /\ LastCallIs("write_char")
       => LET ch == LastCall.args[1]
              x == LastCall.args[2]
              y == LastCall.args[3]
          IN /\ IF x < 50 /\ y < 18
                THEN /\ FB_INFO.text[y][x] = map_char(ch)
                     /\ \A r \in 0..17 : \A c \in 0..49 :
                          (r # y \/ c # x)
                            => FB_INFO.text[r][c] = fb_before.text[r][c]
                     /\ DOMAIN FB_INFO.text = DOMAIN fb_before.text
                     /\ \A r \in 0..17 :
                          DOMAIN FB_INFO.text[r] = DOMAIN fb_before.text[r]
                     /\ FB_INFO.line_no = fb_before.line_no
                     /\ FB_INFO.fb_line = fb_before.fb_line
                     /\ FB_INFO.render_line = fb_before.render_line
                ELSE FB_INFO = fb_before
             /\ ~panicked

\* C14 witness: write_char('A', TEXT_MAX_COLS, MAX_Y), one column beyond the
\* last cell, on the grid main has written: nothing has changed.
C14_Witness ==
  /\ LastCallIs("write_char")
  /\ LastCall.args = << 65, TEXT_MAX_COLS, MAX_Y >>
  /\ fb_before.text[0][0] = Glyph("UppercaseA")
  /\ FB_INFO = fb_before

\* C15 as claimed: every character with a glyph in the font table, that is
\* every printable ASCII character 0x20..0x7E, is mapped to its own glyph
\* (the table holds the glyphs in ASCII order after Unknown, so character
\* ch has glyph ch - 0x1F), and only the other characters are mapped to
\* Unknown.
C15_EveryFontCharHasOwnGlyph ==
  (LastCallIs("write_char") /\ InRange(LastCall.args[2], LastCall.args[3]))
    => LET ch == LastCall.args[1]
           x == LastCall.args[2]
           y == LastCall.args[3]
       IN /\ Len(GlyphNames) = 96
          /\ FB_INFO.text[y][x]
               = (IF ch >= 32 /\ ch <= 126 THEN ch - 31 ELSE Glyph("Unknown"))

\* The characters map_char has an arm for: 'A', 'B', 'C', 'D', 'R', ' '.
MappedChars == { 65, 66, 67, 68, 82, 32 }

\* C16: write_char stores Glyph::Unknown for every character outside
\* map_char's table, and a cell holding Unknown renders as 0xFF on each of
\* the 16 lines of its row.
C16_UnmappedCharIsSolidFill ==
  /\ (LastCallIs("write_char") /\ InRange(LastCall.args[2], LastCall.args[3])
       /\ LastCall.args[1] \notin MappedChars)
       => FB_INFO.text[LastCall.args[3]][LastCall.args[2]] = Glyph("Unknown")
  /\ (LastCallIs("render") /\ unwrap(FB_INFO.fb_line) < VISIBLE_LINES_WITH_TEXT)
       => \A c \in 0..(TEXT_MAX_COLS - 1) :
            FB_INFO.text[unwrap(FB_INFO.fb_line) \div FONT_HEIGHT][c]
                = Glyph("Unknown")
              => ColumnByte(FB_INFO, c) = 255
  /\ (/\ Len(call_log) = 2
      /\ call_log[1].op = "write_char"
      /\ call_log[1].args[1] \notin MappedChars
      /\ InRange(call_log[1].args[2], call_log[1].args[3])
      /\ call_log[2].op = "render"
      /\ unwrap(FB_INFO.fb_line) \div FONT_HEIGHT = call_log[1].args[3])
       => ColumnByte(FB_INFO, call_log[1].args[2]) = 255

\* C16 witness: U+00E9 written at the last cell and the last line of its
\* row rendered: the low byte of the last word is 0xFF.
C16_Witness ==
  /\ Len(call_log) = 2
  /\ call_log[1] = [op |-> "write_char", args |-> << 233, MAX_X, MAX_Y >>]
  /\ call_log[2].op = "render"
  /\ FB_INFO.fb_line = Some(VISIBLE_LINES_WITH_TEXT - 1)
  /\ FB_INFO.text[MAX_Y][MAX_X] = Glyph("Unknown")
  /\ FB_INFO.render_line[HORIZONTAL_WORDS - 1] % 256 = 255

\* C17: write_string(msg, x, y) started at an in-range cell puts the k-th
\* character (k from 0) at column (x + k) mod TEXT_MAX_COLS of row
\* y + (x + k) div TEXT_MAX_COLS whenever that row is at most the last row:
\* one column further per character, and from the last column to column 0
\* of the next row.
C17_StringAdvancesAndWrapsColumns ==
  LastCallIs("write_string")
    => LET msg == LastCall.args[1]
           x == LastCall.args[2]
           y == LastCall.args[3]
       IN \A k \in 0..(Len(msg) - 1) :
            LET col == (x + k) % TEXT_MAX_COLS
                row == y + ((x + k) \div TEXT_MAX_COLS)
            IN row <= MAX_Y => FB_INFO.text[row][col] = map_char(msg[k + 1])

\* C17 witness: "AB!" written from the last but one column of row 0 of the
\* blank grid: 'A' and 'B' end row 0 and '!' (Unknown) starts row 1.
C17_Witness ==
  /\ LastCallIs("write_string")
  /\ LastCall.args = << TextMessage(3), MAX_X - 1, 0 >>
  /\ fb_before = FrameBufferNew
  /\ FB_INFO.text[0][MAX_X - 1] = Glyph("UppercaseA")
  /\ FB_INFO.text[0][MAX_X] = Glyph("UppercaseB")
  /\ FB_INFO.text[1][0] = Glyph("Unknown")
  /\ FB_INFO.text[1][1] = Glyph("Space")

\* A write_string that starts on the last row and goes past its last column.
PassesLastRow ==
  /\ LastCallIs("write_string")
  /\ LastCall.args[3] = MAX_Y
  /\ LastCall.args[2] + Len(LastCall.args[1]) > TEXT_MAX_COLS

CellOfChar(x, y, k) ==
  << (y + ((x + k) \div TEXT_MAX_COLS)) % TEXT_MAX_ROWS,
     (x + k) % TEXT_MAX_COLS >>

\* C19: write_string wraps off the end of the screen.  From any in-range
\* start cell the k-th character lands in the grid, on row
\* (y + (x + k) div TEXT_MAX_COLS) mod TEXT_MAX_ROWS, so after the last row
\* writing goes on at row 0; each character is written once, to a cell of
\* its own; every cell not written keeps its glyph (no row is shifted or
\* cleared); and the grid keeps its 18 x 50 shape (no index out of bounds).
C19_StringWrapsOffEndOfScreen ==
  LastCallIs("write_string")
    => LET msg == LastCall.args[1]
           x == LastCall.args[2]
           y == LastCall.args[3]
           written == { CellOfChar(x, y, k) : k \in 0..(Len(msg) - 1) }
       IN /\ written \subseteq ((0..MAX_Y) \X (0..MAX_X))
          /\ Cardinality(written) = Len(msg)
          /\ \A k \in 0..(Len(msg) - 1) :
               FB_INFO.text[CellOfChar(x, y, k)[1]][CellOfChar(x, y, k)[2]]
                 = map_char(msg[k + 1])
          /\ \A r \in 0..MAX_Y : \A c \in 0..MAX_X :
               << r, c >> \notin written
                 => FB_INFO.text[r][c] = fb_before.text[r][c]
          /\ DOMAIN FB_INFO.text = 0..MAX_Y
          /\ \A r \in 0..MAX_Y : DOMAIN FB_INFO.text[r] = 0..MAX_X
          /\ FB_INFO.render_line = fb_before.render_line
          /\ FB_INFO.fb_line = fb_before.fb_line
          /\ FB_INFO.line_no = fb_before.line_no

\* C19 witness: the longest message written from the last but one cell of
\* the grid main has written: two characters end row 17, the others go to
\* row 0, and row 1 and the 'A' at the start of row 17 are untouched.
C19_Witness ==
  /\ LastCallIs("write_string")
  /\ LastCall.args = << TextMessage(MaxMsgLen), MAX_X - 1, MAX_Y >>
  /\ fb_before = main_text(FrameBufferNew)
  /\ FB_INFO.text[MAX_Y][MAX_X] = Glyph("UppercaseB")
  /\ FB_INFO.text[0][MaxMsgLen - 3] = map_char(TextMessage(MaxMsgLen)[MaxMsgLen])
  /\ FB_INFO.text[0][MAX_X] = Glyph("UppercaseA")
  /\ FB_INFO.text[MAX_Y][0] = Glyph("UppercaseA")
  /\ FB_INFO.text[1] = fb_before.text[1]

(* ------------------------------------------------------------------ *)
(* Properties of main's text update (under Spec)                        *)
(* ------------------------------------------------------------------ *)

\* main is between the start and the end of its update of the FrameBuffer.
MainUpdating ==
  main_pc \in { "in_cs", "wrote_string", "wrote_bottom_left",
                "wrote_top_right", "text_written" }

\* C20: main's write_string / write_char calls run inside an
\* interrupt-disabling critical section.  From the start to the end of the
\* update interrupts are masked, main holds the only borrow, no handler is
\* executing and none can be entered; a text grid that is neither the
\* blank one nor the finished one exists only there, so a handler only
\* ever sees the finished grid; and a mutable borrow is held by main alone
\* or by timer0a_isr alone.
C20_MainUpdatesInCriticalSection ==
  /\ MainUpdating
       => /\ primask
          /\ borrow = "mut"
          /\ active = << >>
          /\ \A irq \in Irqs : ~CanEnter(irq)
  /\ active # << >> => FB_INFO.text = FbAtTimerStart.text
  /\ (active = << >> /\ FB_INFO.text # FbAtTimerStart.text
        /\ FB_INFO.text # FrameBufferNew.text)
       => MainUpdating
  /\ borrow = "mut"
       => \/ MainUpdating /\ active = << >>
          \/ ~MainUpdating /\ active = << "TIMER0A" >>

\* C20 witness: main is half way through its update (the greeting is
\* written, the corners are not) with both interrupts enabled in the NVIC
\* and masked by the critical section.
C20_Witness ==
  /\ main_pc = "wrote_string"
  /\ nvic_en = Irqs
  /\ primask
  /\ FB_INFO.text[0][0] = Glyph("UppercaseA")
  /\ FB_INFO.text[MAX_Y][0] = Glyph("Space")
  /\ FB_INFO.text # FbAtTimerStart.text

(* ------------------------------------------------------------------ *)
(* The timers                                                           *)
(* ------------------------------------------------------------------ *)

\* The registers main writes to Timer0.
TimerRegisters == { TAILR, TBILR, TAMATCHR, TBMATCHR }

\* C22: the timing constants are consistent.  The frame is the sum of its
\* four vertical parts, 628 lines; the line is the sum of its four
\* horizontal parts, 2112 ticks, twice the figures of the 40 MHz timing;
\* 0 < H_LINE_START < H_SYNC_END < H_WHOLE_LINE; and every value written
\* to the timer, and every value a counter takes, fits the 16-bit
\* register unchanged.
C22_TimingConstantsConsistent ==
  /\ V_WHOLE_FRAME
       = V_SYNC_PULSE + V_BACK_PORCH + V_VISIBLE_AREA + V_FRONT_PORCH
  /\ V_WHOLE_FRAME = 628
  /\ H_WHOLE_LINE
       = H_SYNC_PULSE + H_BACK_PORCH + H_VISIBLE_AREA + H_FRONT_PORCH
  /\ H_WHOLE_LINE = 2112
  /\ H_WHOLE_LINE = 2 * (800 + 40 + 128 + 88)
  /\ 0 < H_LINE_START
  /\ H_LINE_START < H_SYNC_END
  /\ H_SYNC_END < H_WHOLE_LINE
  /\ \A value \in TimerRegisters :
       /\ value \in 0..((2 ^ 16) - 1)
       /\ timer_load(value) = value
  /\ main_pc \in { "timer_configured", "done" }
       => /\ tar \in 0..TAILR
          /\ tbr \in 0..TBILR

\* C22 witness: the timers run, Timer0A's counter has come down from its
\* reload value to its match value and Timer0B's is still above its own.
C22_Witness ==
  /\ timer_en
  /\ tar = TAMATCHR
  /\ tbr > TBMATCHR
  /\ tbr < TBILR

\* The tick the i-th capture event is raised at when Timer0A raises its
\* event at every reload and Timer0B after_reload ticks later.
EventTick(i, after_reload) ==
  (((i - 1) \div 2) * H_WHOLE_LINE) + (IF i % 2 = 1 THEN 0 ELSE after_reload)

\* C27 as stated: the Timer0A event is raised at Timer0A's match,
\* H_SYNC_PULSE ticks after the reload, and the Timer0B event
\* H_BACK_PORCH ticks after it.
C27_EventAOnMatch ==
  /\ \A i \in DOMAIN ev_log :
       /\ ev_log[i][1] = "CAE"
            => ev_log[i][2] % H_WHOLE_LINE = H_SYNC_PULSE
       /\ ev_log[i][1] = "CBE"
            => ev_log[i][2] % H_WHOLE_LINE = H_SYNC_PULSE + H_BACK_PORCH
  /\ \A i \in DOMAIN ev_log :
       (i > 1 /\ ev_log[i][1] = "CBE")
         => /\ ev_log[i - 1][1] = "CAE"
            /\ ev_log[i][2] - ev_log[i - 1][2] = H_BACK_PORCH

\* C27: the two timers have the same reload value, H_WHOLE_LINE - 1, and
\* count down in step for ever, so their events never drift.  In every
\* line period each event is raised exactly once: the Timer0A event on
\* the rising edge of the sync pulse, at the reload, and the Timer0B
\* event at Timer0B's match H_LINE_START - 1, which is H_SYNC_PULSE +
\* H_BACK_PORCH ticks after the reload.  The matches of the two timers
\* are H_BACK_PORCH ticks apart.
C27_EventsOncePerLineInStep ==
  /\ TAILR = H_WHOLE_LINE - 1
  /\ TBILR = TAILR
  /\ TAMATCHR = TAILR - H_SYNC_PULSE
  /\ TBMATCHR = TAILR - (H_SYNC_PULSE + H_BACK_PORCH)
  /\ TAMATCHR - TBMATCHR = H_BACK_PORCH
  /\ main_pc \in { "timer_configured", "done" }
       => /\ tar = TAILR - (ticks % H_WHOLE_LINE)
          /\ tbr = tar
  /\ \A i \in DOMAIN ev_log :
       ev_log[i] = << IF i % 2 = 1 THEN "CAE" ELSE "CBE",
                      EventTick(i, H_SYNC_PULSE + H_BACK_PORCH) >>
  /\ Len(ev_log)
       = IF ~timer_en THEN 0
         ELSE (2 * (ticks \div H_WHOLE_LINE))
                + (IF ticks % H_WHOLE_LINE < H_SYNC_PULSE + H_BACK_PORCH
                   THEN 1 ELSE 2)

\* C27 witness: three whole line periods have passed and each has had
\* its two events.
C27_Witness ==
  /\ ticks = 3 * H_WHOLE_LINE
  /\ Len(ev_log) = 7
  /\ ev_log[6] = << "CBE", (2 * H_WHOLE_LINE) + H_SYNC_PULSE + H_BACK_PORCH >>
  /\ ev_log[7] = << "CAE", 3 * H_WHOLE_LINE >>

(* ------------------------------------------------------------------ *)
(* The line sequencer and the handlers                                  *)
(* ------------------------------------------------------------------ *)

\* The line a FrameBuffer stands at.
LineOf(fb) == << fb.line_no, fb.fb_line >>

\* C21: line_no and fb_line are changed by start_of_line and by nothing
\* else.  A step that changes either is the call of start_of_line in
\* timer0a_isr; every step of timer0b_isr (start_of_data) and of main
\* (write_string, write_char) leaves both as they are; and at every line
\* start_of_line moves to, render, write_char and write_string return
\* both as they were given.
C21_OnlyStartOfLineMovesLine ==
  [][ /\ LineOf(FB_INFO') # LineOf(FB_INFO)
        => /\ Executing("TIMER0A")
           /\ isr_pc["TIMER0A"] = "entered"
           /\ isr_pc'["TIMER0A"] = "body_done"
           /\ FB_INFO' = start_of_line(FB_INFO)
           /\ LineOf(render(FB_INFO')) = LineOf(FB_INFO')
           /\ LineOf(write_char(FB_INFO', 65, MAX_X, MAX_Y))
                = LineOf(FB_INFO')
           /\ LineOf(write_string(FB_INFO', << 65, 66 >>, MAX_X, MAX_Y))
                = LineOf(FB_INFO')
      /\ (InHandler("TIMER0B") \/ MainUpdating)
           => LineOf(FB_INFO') = LineOf(FB_INFO)
    ]_vars

\* C21 witness: start_of_data has clocked out the whole of scanline 28,
\* and the FrameBuffer still stands at the line start_of_line left it at.
C21_Witness ==
  /\ InHandler("TIMER0B")
  /\ isr_pc["TIMER0B"] = "body_done"
  /\ Len(dr_log) = HORIZONTAL_WORDS
  /\ FB_INFO.line_no = FirstVisible + 1
  /\ FB_INFO.fb_line = Some(0)

\* C23: each handler clears its own pending flag and no other, as its
\* last step after the handler body.  A Timer0B event that is pending
\* while timer0a_isr runs is still pending when timer0a_isr returns, and
\* timer0b_isr is then the handler to be entered.  No step of a handler
\* touches the timers: once enabled they stay enabled, and their events
\* are raised by steps of the timers alone, without being re-armed.
C23_HandlerClearsOwnFlagOnly ==
  [][ /\ \A irq \in Irqs :
           (irq_flag(irq) \in ris /\ irq_flag(irq) \notin ris')
             => /\ Executing(irq)
                /\ isr_pc[irq] = "body_done"
                /\ isr_pc'[irq] = "idle"
                /\ ris' = ris \ { irq_flag(irq) }
      /\ \A irq \in Irqs :
           (isr_pc[irq] # "idle" /\ isr_pc'[irq] = "idle")
             => irq_flag(irq) \notin ris'
      /\ ("CBE" \in ris /\ InHandler("TIMER0A")) => "CBE" \in ris'
      /\ ("CBE" \in ris /\ InHandler("TIMER0A") /\ ~InHandler("TIMER0A")')
           => CanEnter("TIMER0B")'
      /\ timer_en => timer_en'
      /\ timer_next' # timer_next
           => /\ ris \subseteq ris'
              /\ UNCHANGED << main_pc, active, isr_pc, FB_INFO >>
    ]_vars

\* C23 witness: timer0a_isr is about to clear its flag on a visible line
\* while the Timer0B event of that line is already pending.
C23_Witness ==
  /\ Executing("TIMER0A")
  /\ isr_pc["TIMER0A"] = "body_done"
  /\ ris = { "CAE", "CBE" }
  /\ is_some(FB_INFO.fb_line)

\* Every Glyph at every font row indexes inside FONT_DATA.
AllGlyphRowsInFont ==
  \A glyph \in 0..(Len(GlyphNames) - 1) :
    \A row \in 0..(FONT_HEIGHT - 1) :
      /\ font_lookup_in_bounds(glyph, row)
      /\ (glyph * FONT_HEIGHT) + row < 1536

\* C29: render never indexes out of bounds.  On every line with text the
\* text row line div 16 is below 18, the two text columns 2w and 2w + 1
\* of every word w are below 50, and the index glyph * 16 + row of
\* font_lookup is below 1536 for every Glyph variant; so no call of
\* start_of_line inside timer0a_isr panics.
C29_RenderIndicesInBounds ==
  /\ ~panicked
  /\ Len(FONT_DATA) = 1536
  /\ Len(GlyphNames) * FONT_HEIGHT = Len(FONT_DATA)
  /\ AllGlyphRowsInFont
  /\ (2 * (HORIZONTAL_WORDS - 1)) + 1 < TEXT_MAX_COLS
  /\ TEXT_MAX_COLS = 50
  /\ TEXT_MAX_ROWS = 18
  /\ (is_some(FB_INFO.fb_line)
        /\ unwrap(FB_INFO.fb_line) < VISIBLE_LINES_WITH_TEXT)
       => unwrap(FB_INFO.fb_line) \div FONT_HEIGHT < TEXT_MAX_ROWS
  /\ (Executing("TIMER0A") /\ isr_pc["TIMER0A"] = "entered")
       => ~start_of_line_panics(FB_INFO)
  /\ (Executing("TIMER0A") /\ isr_pc["TIMER0A"] = "body_done")
       => render_in_bounds(FB_INFO)

\* C29 witness: timer0a_isr has rendered the last line with text (stored
\* line 287, text row 17, font row 15) and has not panicked.
C29_Witness ==
  /\ Executing("TIMER0A")
  /\ isr_pc["TIMER0A"] = "body_done"
  /\ FB_INFO.fb_line = Some(VISIBLE_LINES_WITH_TEXT - 1)
  /\ FB_INFO.render_line[HORIZONTAL_WORDS - 1]
       = ExpectedWord(FB_INFO, VISIBLE_LINES_WITH_TEXT - 1,
                      HORIZONTAL_WORDS - 1)

\* The scanlines of a frame on which start_of_line selects stored row l.
ScanlinesOf(l) ==
  { n \in 0..(V_WHOLE_FRAME - 1) :
      is_visible_line(n) /\ visible_fb_line(n) = l }

\* Every stored row is selected on exactly two consecutive scanlines, and
\* no other row is selected on any scanline.
EachRowOnTwoScanlines ==
  /\ \A l \in 0..(VISIBLE_LINES - 1) :
       ScanlinesOf(l) = { FirstVisible + (2 * l), FirstVisible + (2 * l) + 1 }
  /\ \A n \in 0..(V_WHOLE_FRAME - 1) :
       is_visible_line(n) => visible_fb_line(n) \in 0..(VISIBLE_LINES - 1)

\* C28: vertical doubling.  On every visible scanline fb_line is
\* (line_no - 27) div 2; it ranges over exactly 0..299, each stored row
\* being selected on exactly two consecutive scanlines; and with the text
\* grid unchanged the words clocked out on a scanline are those of its
\* stored row alone, so the two scanlines of a row clock out identical
\* word arrays.
C28_VerticalDoubling ==
  /\ FirstVisible = 27
  /\ EachRowOnTwoScanlines
  /\ is_visible_line(FB_INFO.line_no) <=> is_some(FB_INFO.fb_line)
  /\ is_some(FB_INFO.fb_line)
       => /\ unwrap(FB_INFO.fb_line) = (FB_INFO.line_no - 27) \div 2
          /\ unwrap(FB_INFO.fb_line) \in 0..(VISIBLE_LINES - 1)
          /\ FB_INFO.line_no - (27 + (2 * unwrap(FB_INFO.fb_line)))
               \in { 0, 1 }
  /\ (isr_pc["TIMER0B"] = "body_done" /\ is_visible_line(FB_INFO.line_no))
       => /\ FB_INFO.text = FbAtTimerStart.text
          /\ dr_log
               = [i \in 1..HORIZONTAL_WORDS |->
                    ExpectedWord(FbAtTimerStart,
                                 (FB_INFO.line_no - 27) \div 2, i - 1)]

\* C28 witness: the second scanline of the last stored row (scanline 626,
\* row 299) has been clocked out.
C28_Witness ==
  /\ isr_pc["TIMER0B"] = "body_done"
  /\ FB_INFO.line_no = EndVisible - 1
  /\ FB_INFO.fb_line = Some(VISIBLE_LINES - 1)
  /\ Len(dr_log) = HORIZONTAL_WORDS

\* C30: the RefCell inside FB_INFO is never borrowed while a conflicting
\* borrow is live.  The mutable borrow of main, the mutable borrow of
\* timer0a_isr and the shared borrow of timer0b_isr never overlap: each
\* is held by its holder alone, a handler can be entered only while
\* there is no borrow at all, and no borrow panics, although both
\* handlers make their CriticalSection token without masking interrupts.
C30_BorrowsNeverConflict ==
  /\ ~panicked
  /\ Len(active) <= 1
  /\ borrow = "mut"
       <=> \/ MainUpdating /\ active = << >>
           \/ ~MainUpdating /\ active = << "TIMER0A" >>
  /\ borrow = "shared" <=> active = << "TIMER0B" >>
  /\ borrow = "none" <=> (active = << >> /\ ~MainUpdating)
  /\ \A irq \in Irqs : CanEnter(irq) => borrow = "none"
  /\ active # << >> => ~primask

\* C30 witness: timer0b_isr holds its shared borrow, spinning on the FIFO
\* with interrupts unmasked, while the Timer0A interrupt is pending.
C30_Witness ==
  /\ Executing("TIMER0B")
  /\ isr_pc["TIMER0B"] = "spin"
  /\ borrow = "shared"
  /\ ~primask
  /\ Pending("TIMER0A")

(* ------------------------------------------------------------------ *)
(* Termination and progress (under SpecLive)                            *)
(* ------------------------------------------------------------------ *)

\* The handler in execution has no step to take.
HandlerBlocked ==
  /\ active # << >>
  /\ ~ENABLED LiveHandlerSteps

\* start_of_data is in its spin-wait and the FIFO is full.
SpinningOnFullFifo ==
  /\ Executing("TIMER0B")
  /\ isr_pc["TIMER0B"] = "spin"
  /\ ~tnf(ssi_fifo)

\* C24: the handlers never block except in the FIFO spin-wait.  A handler
\* in execution always has a step to take unless start_of_data is
\* spinning on a full FIFO, so start_of_line never waits; and while the
\* SSI keeps draining the FIFO every handler entered returns,
\* start_of_data after writing all 25 words of a visible line.
C24_HandlersReturnWhileSsiDrains ==
  /\ [](HandlerBlocked <=> SpinningOnFullFifo)
  /\ [](InHandler("TIMER0A") => ~HandlerBlocked)
  /\ \A irq \in Irqs : InHandler(irq) ~> ~InHandler(irq)
  /\ (isr_pc["TIMER0B"] = "write" /\ word_idx = 0)
       ~> (isr_pc["TIMER0B"] = "body_done"
             /\ Len(dr_log) = HORIZONTAL_WORDS)

\* C24 witness: start_of_data has written its last word to the FIFO,
\* which is full, and waits in the spin-wait for the SSI to drain it.
C24_Witness ==
  /\ SpinningOnFullFifo
  /\ word_idx = HORIZONTAL_WORDS - 1
  /\ Len(dr_log) = HORIZONTAL_WORDS

\* The words stored line l of fb's text grid renders to, as start_of_data
\* logs them.
ExpectedLine(fb, l) ==
  [i \in 1..HORIZONTAL_WORDS |-> ExpectedWord(fb, l, i - 1)]

\* start_of_data has clocked out the whole of stored line l.
ClockedOut(l) ==
  /\ isr_pc["TIMER0B"] = "body_done"
  /\ FB_INFO.fb_line = Some(l)
  /\ dr_log = ExpectedLine(FbAtTimerStart, l)

C31_NoHandlerBeforeSetupComplete ==
  /\ timer_en <=> main_pc = "done"
  /\ timer_en
       => /\ ssi_en
          /\ nvic_en = Irqs
          /\ imr = { "CAE", "CBE" }
          /\ tar = TAILR /\ tbr = TBILR
          /\ ~primask
  /\ ~timer_en
       => /\ active = << >>
          /\ ris = {}
          /\ \A irq \in Irqs : isr_pc[irq] = "idle" /\ ~Pending(irq)
          /\ calls = 0
          /\ dr_log = << >>
  /\ calls = 0
       => /\ isr_pc["TIMER0B"] = "idle"
          /\ FB_INFO.line_no = 0
          /\ FB_INFO.fb_line = None
          /\ FB_INFO.render_line = [w \in 0..(HORIZONTAL_WORDS - 1) |-> 0]
  /\ (calls = 0 /\ timer_en) => FB_INFO = main_text(FrameBufferNew)

\* C31 witness: the first interrupt has been taken: timer0a_isr is about
\* to call start_of_line for the first time, on the FrameBuffer as main
\* left it.
C31_Witness ==
  /\ Executing("TIMER0A")
  /\ isr_pc["TIMER0A"] = "entered"
  /\ calls = 0
  /\ main_pc = "done"
  /\ FB_INFO.text[0][0] = Glyph("UppercaseA")
  /\ FB_INFO.text[MAX_Y][MAX_X] = Glyph("UppercaseA")

\* Lines start_of_line moves on from to a blanking line: into the sync
\* pulse, into the back porch, into the front porch and across the end of
\* the frame.
BeforeBlankingLines ==
  { 0, V_SYNC_PULSE - 1, EndVisible - 1, V_WHOLE_FRAME - 1 }

\* C32: the text grid is changed by write_char and write_string only,
\* and render_line by render on a visible line only.  A step that
\* changes the text grid is one of main's writes; a step that changes
\* render_line is the start_of_line call of timer0a_isr moving to a
\* visible line; no step of timer0b_isr (start_of_data) changes any field
\* of the FrameBuffer; and start_of_line moving to a blanking line, from
\* whatever render_line the last render left, changes line_no and fb_line
\* and nothing else.
C32_FrameEffects ==
  [][ /\ FB_INFO'.text # FB_INFO.text
        => /\ MainUpdating
           /\ active = << >>
           /\ main_pc' # main_pc
           /\ UNCHANGED << FB_INFO.line_no, FB_INFO.fb_line,
                           FB_INFO.render_line >>
      /\ FB_INFO'.render_line # FB_INFO.render_line
        => /\ Executing("TIMER0A")
           /\ isr_pc["TIMER0A"] = "entered"
           /\ is_visible_line(FB_INFO'.line_no)
           /\ FB_INFO' = render([FB_INFO' EXCEPT
                                   !.render_line = FB_INFO.render_line])
      /\ InHandler("TIMER0B") => FB_INFO' = FB_INFO
      /\ (InHandler("TIMER0A") /\ ~is_visible_line(FB_INFO'.line_no))
        => FB_INFO'.render_line = FB_INFO.render_line
      /\ (isr_pc["TIMER0A"] = "entered" /\ isr_pc'["TIMER0A"] = "body_done")
        => /\ FB_INFO'.text = FB_INFO.text
           /\ \A n \in BeforeBlankingLines :
                start_of_line([FB_INFO' EXCEPT !.line_no = n])
                  = [FB_INFO' EXCEPT !.line_no = next_line_no(n),
                                     !.fb_line = None]
    ]_vars

\* C32 witness: start_of_line has moved to a blanking line (the first of
\* the front porch) and start_of_data has run on it, the FrameBuffer
\* still holding main's text and the last render_line.
C32_Witness ==
  /\ Executing("TIMER0B")
  /\ isr_pc["TIMER0B"] = "body_done"
  /\ FB_INFO.line_no = EndVisible
  /\ FB_INFO.fb_line = None
  /\ FB_INFO.text = FbAtTimerStart.text
  /\ dr_log = << >>

PrintableAscii ==
  << "Space", "ExclamationMark", "DoubleQuote", "Hash", "Dollar",
     "Percent", "Ampersand", "SingleQuote", "OpenRoundBracket",
     "CloseRoundBracket", "Asterisk", "Plus", "Comma", "Minus", "Period",
     "Slash",
     "Digit0", "Digit1", "Digit2", "Digit3", "Digit4", "Digit5", "Digit6",
     "Digit7", "Digit8", "Digit9",
     "Colon", "SemiColon", "LessThan", "Equals", "GreaterThan",
     "QuestionMark", "At",
     "UppercaseA", "UppercaseB", "UppercaseC", "UppercaseD", "UppercaseE",
     "UppercaseF", "UppercaseG", "UppercaseH", "UppercaseI", "UppercaseJ",
     "UppercaseK", "UppercaseL", "UppercaseM", "UppercaseN", "UppercaseO",
     "UppercaseP", "UppercaseQ", "UppercaseR", "UppercaseS", "UppercaseT",
     "UppercaseU", "UppercaseV", "UppercaseW", "UppercaseX", "UppercaseY",
     "UppercaseZ",
     "OpenSquareBracket", "Backslash", "CloseSquareBracket", "Caret",
     "Underscore", "Backtick",
     "LowercaseA", "LowercaseB", "LowercaseC", "LowercaseD", "LowercaseE",
     "LowercaseF", "LowercaseG", "LowercaseH", "LowercaseI", "LowercaseJ",
     "LowercaseK", "LowercaseL", "LowercaseM", "LowercaseN", "LowercaseO",
     "LowercaseP", "LowercaseQ", "LowercaseR", "LowercaseS", "LowercaseT",
     "LowercaseU", "LowercaseV", "LowercaseW", "LowercaseX", "LowercaseY",
     "LowercaseZ",
     "OpenBrace", "VerticalBar", "CloseBrace", "Tilde" >>

\* The 16 bytes of FONT_DATA that belong to glyph g.
GlyphBlock(g) ==
  SubSeq(FONT_DATA, (g * FONT_HEIGHT) + 1, (g + 1) * FONT_HEIGHT)

\* The enum and the table on their own: 96 distinct variants numbered
\* 0..95, Unknown first, then the printable characters in code order; 96
\* blocks of 16 bytes; font_lookup reads byte row of the glyph's block.
GlyphsAndFontAligned ==
  /\ Len(GlyphNames) = 96
  /\ Cardinality(Range(GlyphNames)) = 96
  /\ { Glyph(GlyphNames[i]) : i \in DOMAIN GlyphNames } = 0..95
  /\ Glyph("Unknown") = 0
  /\ Glyph("Space") = 1
  /\ Len(PrintableAscii) = 95
  /\ \A a \in 32..126 : Glyph(PrintableAscii[(a - 32) + 1]) = (a - 32) + 1
  /\ Len(FONT_DATA) = 96 * FONT_HEIGHT
  /\ Len(FONT_DATA) = 1536
  /\ \A g \in 0..95 :
       \A row \in 0..(FONT_HEIGHT - 1) :
         font_lookup(g, row) = GlyphBlock(g)[row + 1]
  /\ GlyphBlock(Glyph("UppercaseA")) = UppercaseA_Bitmap
  /\ GlyphBlock(Glyph("Unknown")) = [k \in 1..FONT_HEIGHT |-> 255]
  /\ GlyphBlock(Glyph("Space")) = [k \in 1..FONT_HEIGHT |-> 0]

\* C34: the Glyph enum and the font table are aligned.  Glyph has exactly
\* 96 variants with discriminants 0..95: Unknown = 0, Space = 1, then the
\* printable ASCII characters in code order, so that a character with
\* code a in 0x20..0x7E has discriminant a - 0x20 + 1; FONT_DATA holds
\* 96 * FONT_HEIGHT = 1536 bytes; and font_lookup(g, row) returns byte row
\* of the 16-byte block that belongs to g.  So the glyph write_char stores
\* for a character map_char knows is a - 0x20 + 1, and the bytes render
\* produces for a cell are those of the block of the glyph in the cell.
C34_GlyphsAndFontAligned ==
  /\ GlyphsAndFontAligned
  /\ (LastCallIs("write_char") /\ InRange(LastCall.args[2], LastCall.args[3]))
       => LET g == FB_INFO.text[LastCall.args[3]][LastCall.args[2]]
          IN /\ g \in 0..95
             /\ LastCall.args[1] \in MappedChars
                  => g = (LastCall.args[1] - 32) + 1
  /\ (LastCallIs("render") /\ LastCall.args[1] < VISIBLE_LINES_WITH_TEXT)
       => LET r == LastCall.args[1] \div FONT_HEIGHT
              k == LastCall.args[1] % FONT_HEIGHT
          IN \A c \in { 0, 1, MAX_X - 1, MAX_X } :
               ColumnByte(FB_INFO, c) = GlyphBlock(FB_INFO.text[r][c])[k + 1]

\* C34 witness: 'R' (0x52) has been written to the last cell of the grid
\* as glyph 0x52 - 0x20 + 1 = 51, UppercaseR.
C34_Witness ==
  /\ LastCallIs("write_char")
  /\ LastCall.args = << 82, MAX_X, MAX_Y >>
  /\ FB_INFO.text[MAX_Y][MAX_X] = 51
  /\ Glyph("UppercaseR") = 51

\* Vector number of the first entry of INTERRUPTS: the interrupts follow
\* the 16 exceptions of the core in the vector table.
FirstIrqVector == 16

\* The indices of INTERRUPTS, 0-based as in the source.
Slots == 0..(Len(INTERRUPTS) - 1)

\* The slots of the table whose entry is the function h.
SlotsOf(h) == { s \in Slots : dispatch(s) = Some(h) }

\* The table on its own: 139 entries, timer0a_isr in slot 19 (vector 35)
\* and nowhere else, timer0b_isr in slot 20 (vector 36) and nowhere else,
\* every other slot empty or default_handler.
TimerSlotsOnly ==
  /\ Len(INTERRUPTS) = 139
  /\ dispatch(19) = Some("timer0a_isr")
  /\ dispatch(20) = Some("timer0b_isr")
  /\ irq_slot("TIMER0A") + FirstIrqVector = 35
  /\ irq_slot("TIMER0B") + FirstIrqVector = 36
  /\ SlotsOf("timer0a_isr") = { irq_slot("TIMER0A") }
  /\ SlotsOf("timer0b_isr") = { irq_slot("TIMER0B") }
  /\ \A irq \in Irqs : dispatch(irq_slot(irq)) = Some(irq_handler(irq))
  /\ \A s \in Slots \ { 19, 20 } :
       dispatch(s) \in { None, Some("default_handler") }

\* C35: the dispatch of interrupts is fixed by the table.  The slot of
\* Timer0A (vector 35, index 19 of the table) dispatches to timer0a_isr,
\* the slot of Timer0B (vector 36, index 20) dispatches to timer0b_isr,
\* and no other slot dispatches to either: every other populated slot
\* goes to default_handler.  So whenever one of the two handlers is in
\* execution, it was entered for its own interrupt, that interrupt is
\* enabled, and the handler holds the borrow it takes.
C35_DispatchTableFixed ==
  /\ TimerSlotsOnly
  /\ Range(active) \subseteq Irqs
  /\ \A irq \in Irqs :
       isr_pc[irq] # "idle"
         => /\ irq \in nvic_en
            /\ irq \in Range(active)
  /\ isr_pc["TIMER0A"] # "idle" => borrow = "mut"
  /\ isr_pc["TIMER0B"] # "idle" => borrow = "shared"

\* C35 witness: the Timer0B interrupt has been taken and the function in
\* execution is timer0b_isr, the entry of slot 20, writing a line to the
\* SSI.
C35_Witness ==
  /\ active = << "TIMER0B" >>
  /\ isr_pc["TIMER0B"] = "write"
  /\ borrow = "shared"
  /\ dispatch(irq_slot(Head(active))) = Some("timer0b_isr")
  /\ Len(dr_log) > 0

====
